---- MODULE Spec2Model ----
(***************************************************************************)
(* A model of the table-construction core of the golemon parser generator  *)
(* (src/lemongo.go): the offset packer (acttab), conflict resolution,      *)
(* default compression, the action encoding, the symbol sort and the       *)
(* lambda analysis.                                                        *)
(***************************************************************************)
EXTENDS Integers, Sequences, FiniteSets, TLC

VARIABLES
  p,        \* the acttab under construction (struct acttab)
  rows,     \* the rows inserted so far, in order: [ofst, safe, ents]
  tabPanic, \* TRUE once a write of acttab_insert fell outside aAction[]
  lem,      \* the grammar and automaton (struct lemon)
  rs,       \* the conflict-resolution loop of FindActions over one state
  call,     \* the last call of resolve_conflict, if any: {[x0, y0, x1, y1, n0, n1]}
  pc        \* the phase the generator is in

actVars == <<p, rows, tabPanic>>
resVars == <<lem, rs, call, pc>>
vars == <<p, rows, tabPanic, lem, rs, call, pc>>

Idle == "-"

(***************************************************************************)
(* Bounds of the packer model.                                             *)
(***************************************************************************)
MaxSymbol == 4        \* nsymbol ranges over 2..MaxSymbol
MaxActionCode == 1    \* action codes of a row range over 0..MaxActionCode
MaxRows == 3

Max(S) == CHOOSE x \in S : \A y \in S : y <= x
Min(S) == CHOOSE x \in S : \A y \in S : x <= y

(***************************************************************************)
(* The acttab module.  aAction[] is a function on 0..nActionAlloc-1 and    *)
(* aLookahead[] a sequence holding the nLookahead used entries.            *)
(***************************************************************************)
EmptySlot == [lookahead |-> -1, action |-> -1]

acttab_alloc(nsymbol, nterminal) ==
  [nAction |-> 0, nActionAlloc |-> 0, aAction |-> << >>,
   aLookahead |-> << >>, mnLookahead |-> 0, mnAction |-> 0,
   mxLookahead |-> 0, nLookahead |-> 0,
   nterminal |-> nterminal, nsymbol |-> nsymbol]

acttab_action(q, lookahead, action) ==
  LET first == q.nLookahead = 0
      lower == (~first) /\ q.mnLookahead > lookahead
  IN [q EXCEPT
        !.mxLookahead = IF first \/ q.mxLookahead < lookahead
                        THEN lookahead ELSE @,
        !.mnLookahead = IF first \/ lower THEN lookahead ELSE @,
        !.mnAction = IF first \/ lower THEN action ELSE @,
        !.aLookahead = Append(@, [lookahead |-> lookahead, action |-> action]),
        !.nLookahead = @ + 1]

\* The reallocation at the head of acttab_insert.
acttab_grow(q) ==
  LET n == q.nsymbol + 1 IN
  IF q.nAction + n >= q.nActionAlloc
  THEN LET newAlloc == q.nAction + n + q.nActionAlloc + 20 IN
       [q EXCEPT !.nActionAlloc = newAlloc,
                 !.aAction = [i \in 0..(newAlloc - 1) |->
                                IF i < q.nActionAlloc THEN q.aAction[i]
                                ELSE EmptySlot]]
  ELSE q

\* Index in aAction[] of the j-th entry of the transaction placed at i.
SlotOf(q, i, j) == q.aLookahead[j].lookahead - q.mnLookahead + i

\* DupMatches without the count of entries that line up with offset i.
DupMatches_NoCount(q, i) ==
  /\ q.aAction[i].lookahead = q.mnLookahead
  /\ q.aAction[i].action = q.mnAction
  /\ \A j \in 1..q.nLookahead :
        LET k == SlotOf(q, i, j) IN
          /\ k >= 0
          /\ k < q.nAction
          /\ q.aLookahead[j].lookahead = q.aAction[k].lookahead
          /\ q.aLookahead[j].action = q.aAction[k].action

\* The body of the duplicate scan for one candidate i.
DupMatches(q, i) ==
  /\ q.aAction[i].lookahead = q.mnLookahead
  /\ q.aAction[i].action = q.mnAction
  /\ \A j \in 1..q.nLookahead :
        LET k == SlotOf(q, i, j) IN
          /\ k >= 0
          /\ k < q.nAction
          /\ q.aLookahead[j].lookahead = q.aAction[k].lookahead
          /\ q.aLookahead[j].action = q.aAction[k].action
  /\ Cardinality({j \in 0..(q.nAction - 1) :
                     /\ q.aAction[j].lookahead >= 0
                     /\ q.aAction[j].lookahead = j + q.mnLookahead - i})
       = q.nLookahead

\* HoleFits testing only slot i, not the slot of each entry of the row.
HoleFits_FirstSlotOnly(q, i) ==
  /\ q.aAction[i].lookahead < 0
  /\ \A j \in 0..(q.nAction - 1) :
        q.aAction[j].lookahead # j + q.mnLookahead - i

\* The body of the hole scan for one candidate i.
HoleFits(q, i) ==
  /\ q.aAction[i].lookahead < 0
  /\ \A j \in 1..q.nLookahead :
        LET k == SlotOf(q, i, j) IN
          /\ k >= 0
          /\ q.aAction[k].lookahead < 0
  /\ \A j \in 0..(q.nAction - 1) :
        q.aAction[j].lookahead # j + q.mnLookahead - i

\* The index i at which acttab_insert places the transaction.
InsertIndex(q, makeItSafe) ==
  LET end == IF makeItSafe THEN q.mnLookahead ELSE 0
      dups == {i \in end..(q.nAction - 1) : DupMatches(q, i)}
      limit == q.nActionAlloc - q.mxLookahead
      holes == {i \in end..(limit - 1) : HoleFits(q, i)}
  IN IF dups # {} THEN Max(dups)
     ELSE IF holes # {} THEN Min(holes)
     ELSE IF end < limit THEN limit ELSE end

\* FillAfter without the extension by nterminal slots.
FillAfter_NoExtend(q, i, ks, makeItSafe) ==
  IF Max(ks) >= q.nAction THEN Max(ks) + 1 ELSE q.nAction

\* nAction after the entries were written at the slots ks.
FillAfter(q, i, ks, makeItSafe) ==
  LET n1 == IF Max(ks) >= q.nAction THEN Max(ks) + 1 ELSE q.nAction
  IN IF makeItSafe /\ i + q.nterminal >= n1
     THEN i + q.nterminal + 1 ELSE n1

\* acttab_insert: the table after the call, the returned offset, and
\* whether a write indexed outside aAction[] (a run-time panic).
acttab_insert(q0, makeItSafe) ==
  LET q == acttab_grow(q0)
      i == InsertIndex(q, makeItSafe)
      ks == {SlotOf(q, i, j) : j \in 1..q.nLookahead}
      oob == \E k \in ks : k < 0 \/ k >= q.nActionAlloc
      lastAt(k) == Max({j \in 1..q.nLookahead : SlotOf(q, i, j) = k})
      written == [k \in 0..(q.nActionAlloc - 1) |->
                    IF k \in ks THEN q.aLookahead[lastAt(k)]
                    ELSE q.aAction[k]]
      n2 == FillAfter(q, i, ks, makeItSafe)
  IN [tab |-> IF oob THEN q
              ELSE [q EXCEPT !.aAction = written, !.nAction = n2,
                             !.aLookahead = << >>, !.nLookahead = 0],
      ofst |-> i - q.mnLookahead,
      panic |-> oob]

(***************************************************************************)
(* The packer driven as ReportTable drives it: one step per action set,    *)
(* acttab_action once per lookahead of the row in increasing order of the  *)
(* lookahead (the order of the sorted action list), then acttab_insert,    *)
(* with makeItSafe for a terminal row.                                     *)
(***************************************************************************)
RECURSIVE FeedRow(_, _)
FeedRow(q, row) ==
  IF row = << >> THEN q
  ELSE FeedRow(acttab_action(q, Head(row).lookahead, Head(row).action),
               Tail(row))

RECURSIVE SortedRow(_, _)
\* The entries of f (lookahead -> action code) over the lookaheads S, as
\* the sequence of acttab_action calls ReportTable makes.
SortedRow(f, S) ==
  IF S = {} THEN << >>
  ELSE LET t == Min(S) IN
       <<[lookahead |-> t, action |-> f[t]]>> \o SortedRow(f, S \ {t})

RowEntries(row) == {<<row[j].lookahead, row[j].action>> : j \in 1..Len(row)}

\* The rows a state can contribute: a non-empty set of terminals, or a
\* non-empty set of nonterminals, each with an action code.
RowChoices(q, isTkn) ==
  LET dom == IF isTkn THEN 0..(q.nterminal - 1)
             ELSE q.nterminal..(q.nsymbol - 1)
  IN UNION {{SortedRow(f, S) : f \in [S -> 0..MaxActionCode]} :
              S \in (SUBSET dom) \ {{}}}

ActtabInit ==
  /\ \E ns \in 2..MaxSymbol : \E nt \in 1..(ns - 1) :
        p = acttab_alloc(ns, nt)
  /\ rows = << >>
  /\ tabPanic = FALSE
  /\ lem = Idle /\ rs = Idle /\ call = {} /\ pc = "pack"

InsertRow(isTkn) ==
  /\ ~tabPanic
  /\ Len(rows) < MaxRows
  /\ \E row \in RowChoices(p, isTkn) :
        LET r == acttab_insert(FeedRow(p, row), isTkn)
        IN /\ p' = r.tab
           /\ tabPanic' = r.panic
           /\ rows' = Append(rows, [ofst |-> r.ofst, safe |-> isTkn,
                                    ents |-> RowEntries(row)])
  /\ UNCHANGED resVars

InsertTerminalRow == InsertRow(TRUE)
InsertNonterminalRow == InsertRow(FALSE)

ActtabNext == InsertTerminalRow \/ InsertNonterminalRow

SpecActtab == ActtabInit /\ [][ActtabNext]_vars

(***************************************************************************)
(* Claims about the offset packer.                                         *)
(***************************************************************************)
InRange(q, k) == k >= 0 /\ k < q.nActionAlloc
Inserted == {rows[n] : n \in 1..Len(rows)}

\* C1: every pair (t, a) of every inserted row reads back at the row's
\* returned offset, aAction[ofst + t] = (t, a), whatever was inserted
\* later, and no write of acttab_insert falls outside aAction[].
C1_RowsReadBack ==
  /\ ~tabPanic
  /\ \A r \in Inserted : \A e \in r.ents :
        /\ InRange(p, r.ofst + e[1])
        /\ p.aAction[r.ofst + e[1]] = [lookahead |-> e[1], action |-> e[2]]

\* C1 witness: a table that holds three rows at three different offsets,
\* one of them with two entries.
C1_Witness ==
  /\ Cardinality({r.ofst : r \in Inserted}) >= 3
  /\ \E r \in Inserted : Cardinality(r.ents) >= 2

C3_SafeRows ==
    \A r \in Inserted : r.safe =>
      /\ r.ofst >= 0
      /\ \A t \in 0..(p.nterminal - 1) :
            /\ r.ofst + t < p.nAction
            /\ InRange(p, r.ofst + t)
            /\ \/ p.aAction[r.ofst + t] = EmptySlot
               \/ <<t, p.aAction[r.ofst + t].action>> \in r.ents
               \/ p.aAction[r.ofst + t].lookahead # t

\* C3 witness: a terminal row placed above offset 0 for which the fill
\* was extended by nterminal slots past its first entry.
C3_Witness ==
  /\ \E r \in Inserted :
        /\ r.safe
        /\ r.ofst > 0
        /\ r.ofst + Min({e[1] : e \in r.ents}) + p.nterminal + 1 = p.nAction

FillWithinAlloc == p.nAction <= p.nActionAlloc

(***************************************************************************)
(* Actions of the automaton.  An action is a record                        *)
(*   [index, sp, typ, stp, rp, spOpt]                                      *)
(* with sp the index of the lookahead symbol, stp the state shifted to and *)
(* rp the index of the rule reduced by (-1 when unset).                    *)
(***************************************************************************)
\* enum e_action, in the order of its declaration
SHIFT == 0
ACCEPT == 1
REDUCE == 2
ERROR == 3
SSCONFLICT == 4
SRCONFLICT == 5
RRCONFLICT == 6
SH_RESOLVED == 7
RD_RESOLVED == 8
NOT_USED == 9
SHIFTREDUCE == 10

\* enum e_assoc
LEFT == "LEFT"
RIGHT == "RIGHT"
NONE == "NONE"
UNK == "UNK"

\* enum symbol_type
TERMINAL == "TERMINAL"
NONTERMINAL == "NONTERMINAL"
MULTITERMINAL == "MULTITERMINAL"

NoRule == -1     \* a nil *rule
NoSym == -1      \* a nil *symbol
NoState == -1    \* a nil *state

actioncmp(rule, ap1, ap2) ==
  LET rc1 == ap1.sp - ap2.sp
      rc2 == IF rc1 = 0 THEN ap1.typ - ap2.typ ELSE rc1
      rc3 == IF rc2 = 0 /\ (ap1.typ = REDUCE \/ ap1.typ = SHIFTREDUCE)
             THEN rule[ap1.rp].index - rule[ap2.rp].index ELSE rc2
  IN IF rc3 = 0 THEN ap2.index - ap1.index ELSE rc3

\* msort__action: the list in the total order of actioncmp.
Action_sort(rule, ap) ==
  SortSeq(ap, LAMBDA a, b : actioncmp(rule, a, b) < 0)

\* Action_add prepends the new action to the list.
Action_add(ap, index, typ, sp, stp, rp) ==
  <<[index |-> index, sp |-> sp, typ |-> typ, stp |-> stp, rp |-> rp,
     spOpt |-> NoSym]>> \o ap

\* The precedence of a precedence symbol (nil has none).
PrecOf(symbols, s) == IF s = NoSym THEN -1 ELSE symbols[s].prec

\* resolve_SR with the roles of Left and Right exchanged.
resolve_SR_AssocSwapped(symbols, rule, apx, apy) ==
  LET spy == rule[apy.rp].precsym
      px == symbols[apx.sp].prec
      py == PrecOf(symbols, spy)
      assoc == symbols[apx.sp].assoc
  IN IF spy = NoSym \/ px < 0 \/ py < 0
     THEN [x |-> apx, y |-> [apy EXCEPT !.typ = SRCONFLICT], errcnt |-> 1]
     ELSE IF px > py
     THEN [x |-> apx, y |-> [apy EXCEPT !.typ = RD_RESOLVED], errcnt |-> 0]
     ELSE IF px < py
     THEN [x |-> [apx EXCEPT !.typ = SH_RESOLVED], y |-> apy, errcnt |-> 0]
     ELSE IF assoc = LEFT
     THEN [x |-> apx, y |-> [apy EXCEPT !.typ = RD_RESOLVED], errcnt |-> 0]
     ELSE IF assoc = RIGHT
     THEN [x |-> [apx EXCEPT !.typ = SH_RESOLVED], y |-> apy, errcnt |-> 0]
     ELSE [x |-> [apx EXCEPT !.typ = ERROR], y |-> apy, errcnt |-> 0]

\* resolve_conflict, the branch apx.typ == SHIFT && apy.typ == REDUCE.
resolve_SR(symbols, rule, apx, apy) ==
  LET spy == rule[apy.rp].precsym
      px == symbols[apx.sp].prec
      py == PrecOf(symbols, spy)
      assoc == symbols[apx.sp].assoc
  IN IF spy = NoSym \/ px < 0 \/ py < 0
     THEN [x |-> apx, y |-> [apy EXCEPT !.typ = SRCONFLICT], errcnt |-> 1]
     ELSE IF px > py
     THEN [x |-> apx, y |-> [apy EXCEPT !.typ = RD_RESOLVED], errcnt |-> 0]
     ELSE IF px < py
     THEN [x |-> [apx EXCEPT !.typ = SH_RESOLVED], y |-> apy, errcnt |-> 0]
     ELSE IF assoc = RIGHT
     THEN [x |-> apx, y |-> [apy EXCEPT !.typ = RD_RESOLVED], errcnt |-> 0]
     ELSE IF assoc = LEFT
     THEN [x |-> [apx EXCEPT !.typ = SH_RESOLVED], y |-> apy, errcnt |-> 0]
     ELSE [x |-> [apx EXCEPT !.typ = ERROR], y |-> apy, errcnt |-> 0]

\* resolve_RR without the test for equal precedences.
resolve_RR_NoEqualTest(symbols, rule, apx, apy) ==
  LET spx == rule[apx.rp].precsym
      spy == rule[apy.rp].precsym
      px == PrecOf(symbols, spx)
      py == PrecOf(symbols, spy)
  IN IF spx = NoSym \/ spy = NoSym \/ px < 0 \/ py < 0
     THEN [x |-> apx, y |-> [apy EXCEPT !.typ = RRCONFLICT], errcnt |-> 1]
     ELSE IF px > py
     THEN [x |-> apx, y |-> [apy EXCEPT !.typ = RD_RESOLVED], errcnt |-> 0]
     ELSE IF px < py
     THEN [x |-> [apx EXCEPT !.typ = RD_RESOLVED], y |-> apy, errcnt |-> 0]
     ELSE [x |-> apx, y |-> apy, errcnt |-> 0]

\* resolve_conflict, the branch apx.typ == REDUCE && apy.typ == REDUCE.
resolve_RR(symbols, rule, apx, apy) ==
  LET spx == rule[apx.rp].precsym
      spy == rule[apy.rp].precsym
      px == PrecOf(symbols, spx)
      py == PrecOf(symbols, spy)
  IN IF spx = NoSym \/ spy = NoSym \/ px < 0 \/ py < 0 \/ px = py
     THEN [x |-> apx, y |-> [apy EXCEPT !.typ = RRCONFLICT], errcnt |-> 1]
     ELSE IF px > py
     THEN [x |-> apx, y |-> [apy EXCEPT !.typ = RD_RESOLVED], errcnt |-> 0]
     ELSE IF px < py
     THEN [x |-> [apx EXCEPT !.typ = RD_RESOLVED], y |-> apy, errcnt |-> 0]
     ELSE [x |-> apx, y |-> apy, errcnt |-> 0]

\* The kinds the assertion of the last branch of resolve_conflict accepts.
Settled == {SH_RESOLVED, RD_RESOLVED, SSCONFLICT, SRCONFLICT, RRCONFLICT}

\* resolve_conflict: the two actions after the call, the value returned,
\* and whether the assertion of the last branch held (the program exits
\* with status 1 when it does not).
resolve_conflict(symbols, rule, apx, apy0) ==
  LET ss == apx.typ = SHIFT /\ apy0.typ = SHIFT
      apy == IF ss THEN [apy0 EXCEPT !.typ = SSCONFLICT] ELSE apy0
      e0 == IF ss THEN 1 ELSE 0
  IN IF apx.typ = SHIFT /\ apy.typ = REDUCE
     THEN LET r == resolve_SR(symbols, rule, apx, apy)
          IN [x |-> r.x, y |-> r.y, errcnt |-> e0 + r.errcnt, ok |-> TRUE]
     ELSE IF apx.typ = REDUCE /\ apy.typ = REDUCE
     THEN LET r == resolve_RR(symbols, rule, apx, apy)
          IN [x |-> r.x, y |-> r.y, errcnt |-> e0 + r.errcnt, ok |-> TRUE]
     ELSE [x |-> apx, y |-> apy, errcnt |-> e0,
           ok |-> apx.typ \in Settled \/ apy.typ \in Settled]

(***************************************************************************)
(* The conflict-resolution loop of FindActions over one state.  The loop   *)
(* is the record [ap, i, j, nconflict, failed]: ap the sorted action list, *)
(* (i, j) the positions of "ap" and "nap" at the next call of              *)
(* resolve_conflict (i = 0 when the loops are over), failed set when an    *)
(* assertion stopped the program.                                          *)
(***************************************************************************)
\* The first position i >= i0 whose successor has the same lookahead.
FirstPair(ap, i0) ==
  LET S == {i \in i0..(Len(ap) - 1) : ap[i + 1].sp = ap[i].sp}
  IN IF S = {} THEN <<0, 0>> ELSE <<Min(S), Min(S) + 1>>

\* The positions of the call after the one at (i, j).
NextPair(ap, i, j) ==
  IF j + 1 <= Len(ap) /\ ap[j + 1].sp = ap[i].sp THEN <<i, j + 1>>
  ELSE FirstPair(ap, i + 1)

ResolveStart(rule, ap0, nconflict) ==
  LET ap == Action_sort(rule, ap0)
      f == FirstPair(ap, 1)
  IN [ap |-> ap, i |-> f[1], j |-> f[2], nconflict |-> nconflict,
      failed |-> FALSE]

ResolveStep(symbols, rule, r) ==
  LET c == resolve_conflict(symbols, rule, r.ap[r.i], r.ap[r.j])
      ap == [r.ap EXCEPT ![r.i] = c.x, ![r.j] = c.y]
      n == NextPair(ap, r.i, r.j)
  IN IF c.ok
     THEN [r EXCEPT !.ap = ap, !.i = n[1], !.j = n[2],
                    !.nconflict = @ + c.errcnt]
     ELSE [r EXCEPT !.i = 0, !.j = 0, !.failed = TRUE]

RECURSIVE ResolveAll(_, _, _)
ResolveAll(symbols, rule, r) ==
  IF r.i = 0 THEN r ELSE ResolveAll(symbols, rule, ResolveStep(symbols, rule, r))

(***************************************************************************)
(* The resolution loop over the action list of one state.  The state has   *)
(* up to MaxShift SHIFTs and a REDUCE for each of up to MaxRule rules on   *)
(* one terminal T, and on the start symbol nothing, the ACCEPT of state 0, *)
(* or that ACCEPT and a SHIFT.  The symbols are                            *)
(*   0 "$", 1 T, 2 a token without precedence, 2+k a token of precedence   *)
(*   k (1 <= k <= MaxPrec), 3+MaxPrec the start symbol;                    *)
(* T has any declared precedence and associativity, or none; the           *)
(* precedence symbol of a rule is nil or one of the tokens 2..2+MaxPrec.   *)
(***************************************************************************)
MaxPrec == 2
MaxRule == 3
MaxShift == 2

RECURSIVE SeqOfSet(_)
\* The members of a set of integers in increasing order.
SeqOfSet(S) == IF S = {} THEN << >> ELSE <<Min(S)>> \o SeqOfSet(S \ {Min(S)})

Reverse(q) == [k \in 1..Len(q) |-> q[Len(q) + 1 - k]]

TokT == 1
SymStart == 3 + MaxPrec
PrecChoices == {<<-1, UNK>>} \cup ((1..MaxPrec) \X {LEFT, RIGHT, NONE})
PrecSymChoices == {NoSym} \cup (2..(2 + MaxPrec))

\* Symbol_new leaves prec -1 and assoc UNK; a %left, %right or %nonassoc
\* declaration gives all its tokens one precedence and associativity.
ResolveSymbols(tp, ta) ==
  [s \in 0..SymStart |->
     IF s = 0 \/ s = SymStart
     THEN [typ |-> NONTERMINAL, prec |-> -1, assoc |-> UNK]
     ELSE IF s = TokT THEN [typ |-> TERMINAL, prec |-> tp, assoc |-> ta]
     ELSE IF s = 2 THEN [typ |-> TERMINAL, prec |-> -1, assoc |-> UNK]
     ELSE [typ |-> TERMINAL, prec |-> s - 2,
           assoc |-> IF s - 2 = tp THEN ta ELSE LEFT]]

\* The action list of the state before the sort, in the order the actions
\* are added: the SHIFTs of buildshifts, then the REDUCEs and the ACCEPT
\* of FindActions.
ResolveActions(nShift, R, startGroup) ==
  LET rs0 == SeqOfSet(R)
      nS == IF startGroup = 2 THEN 1 ELSE 0
      created ==
        [k \in 1..nShift |->
           [index |-> k, sp |-> TokT, typ |-> SHIFT, stp |-> k, rp |-> NoRule,
            spOpt |-> NoSym]]
        \o [k \in 1..nS |->
           [index |-> nShift + k, sp |-> SymStart, typ |-> SHIFT,
            stp |-> nShift + k, rp |-> NoRule, spOpt |-> NoSym]]
        \o [k \in 1..Len(rs0) |->
           [index |-> nShift + nS + k, sp |-> TokT, typ |-> REDUCE,
            stp |-> NoState, rp |-> rs0[k], spOpt |-> NoSym]]
        \o [k \in 1..(IF startGroup >= 1 THEN 1 ELSE 0) |->
           [index |-> nShift + nS + Len(rs0) + k, sp |-> SymStart,
            typ |-> ACCEPT, stp |-> NoState, rp |-> NoRule, spOpt |-> NoSym]]
  IN Reverse(created)

ResolveInit ==
  /\ \E pa \in PrecChoices : \E nShift \in 0..MaxShift :
     \E R \in SUBSET (0..(MaxRule - 1)) : \E startGroup \in 0..2 :
     \E ps \in [R -> PrecSymChoices] :
        /\ lem = [symbols |-> ResolveSymbols(pa[1], pa[2]),
                  rule |-> [r \in 0..(MaxRule - 1) |->
                              [index |-> r,
                               precsym |-> IF r \in R THEN ps[r] ELSE NoSym]],
                  ap0 |-> ResolveActions(nShift, R, startGroup)]
        /\ rs = ResolveStart(lem.rule, lem.ap0, 0)
  /\ call = {}
  /\ pc = IF rs.i = 0 THEN "resolved" ELSE "resolve"
  /\ p = Idle /\ rows = Idle /\ tabPanic = FALSE

\* One pass of the inner loop of FindActions: one call of resolve_conflict.
ResolveConflict ==
  /\ pc = "resolve"
  /\ rs' = ResolveStep(lem.symbols, lem.rule, rs)
  /\ call' = {[x0 |-> rs.ap[rs.i], y0 |-> rs.ap[rs.j],
               x1 |-> IF rs'.failed THEN rs.ap[rs.i] ELSE rs'.ap[rs.i],
               y1 |-> IF rs'.failed THEN rs.ap[rs.j] ELSE rs'.ap[rs.j],
               n0 |-> rs.nconflict, n1 |-> rs'.nconflict]}
  /\ pc' = IF rs'.failed THEN "exit"
           ELSE IF rs'.i = 0 THEN "resolved" ELSE "resolve"
  /\ UNCHANGED <<lem, actVars>>

ResolveNext == ResolveConflict

SpecResolve == ResolveInit /\ [][ResolveNext]_vars

\* The loop taken step by step ends where the loop taken whole ends.
ResolveAllAgrees ==
  pc \in {"resolved", "exit"} =>
    rs = ResolveAll(lem.symbols, lem.rule, ResolveStart(lem.rule, lem.ap0, 0))

(***************************************************************************)
(* Claims about conflict resolution.  In a call c of resolve_conflict,     *)
(* c.x0 and c.y0 are apx and apy before the call, c.x1 and c.y1 after it,  *)
(* c.n0 and c.n1 the conflict count before and after.                      *)
(***************************************************************************)
Emitted == {SHIFT, REDUCE, ACCEPT, ERROR, SHIFTREDUCE}

\* The actions of kind in Emitted that the list ap holds on lookahead s.
Survivors(ap, s) == {k \in 1..Len(ap) : ap[k].sp = s /\ ap[k].typ \in Emitted}

\* C6: a call of resolve_conflict on a Shift and a Reduce follows the
\* truth table: without a precedence symbol or with a precedence < 0 the
\* reduce becomes SRConflict and the count rises by 1; else px > py makes
\* the reduce RdResolved, px < py makes the shift ShResolved, px = py does
\* the first for Right and the second for Left, the count unchanged.
C6_ShiftReduceTable ==
  \A c \in call : (c.x0.typ = SHIFT /\ c.y0.typ = REDUCE) =>
    LET px == lem.symbols[c.x0.sp].prec
        assoc == lem.symbols[c.x0.sp].assoc
        spy == lem.rule[c.y0.rp].precsym
        py == IF spy = NoSym THEN -1 ELSE lem.symbols[spy].prec
        dropReduce == c.x1 = c.x0 /\ c.y1 = [c.y0 EXCEPT !.typ = RD_RESOLVED]
        dropShift == c.y1 = c.y0 /\ c.x1 = [c.x0 EXCEPT !.typ = SH_RESOLVED]
    IN IF spy = NoSym \/ px < 0 \/ py < 0
       THEN /\ c.x1 = c.x0
            /\ c.y1 = [c.y0 EXCEPT !.typ = SRCONFLICT]
            /\ c.n1 = c.n0 + 1
       ELSE /\ px > py => dropReduce /\ c.n1 = c.n0
            /\ px < py => dropShift /\ c.n1 = c.n0
            /\ (px = py /\ assoc = RIGHT) => dropReduce /\ c.n1 = c.n0
            /\ (px = py /\ assoc = LEFT) => dropShift /\ c.n1 = c.n0

\* C6 witness: a Shift and a Reduce of equal precedence on a Left token,
\* resolved for the reduce after an earlier conflict was counted.
C6_Witness ==
  \E c \in call :
    /\ c.x0.typ = SHIFT /\ c.y0.typ = REDUCE
    /\ lem.symbols[c.x0.sp].assoc = LEFT
    /\ lem.rule[c.y0.rp].precsym # NoSym
    /\ lem.symbols[lem.rule[c.y0.rp].precsym].prec = lem.symbols[c.x0.sp].prec
    /\ c.x1.typ = SH_RESOLVED
    /\ c.n0 >= 1

\* C7: a call of resolve_conflict on two Reduces marks the later one
\* RRConflict and raises the count by 1 when a rule has no precedence
\* symbol, a precedence is < 0 or the precedences are equal; otherwise the
\* rule of higher precedence stays a Reduce, the other becomes RdResolved
\* and the count is unchanged.
C7_ReduceReduce ==
  \A c \in call : (c.x0.typ = REDUCE /\ c.y0.typ = REDUCE) =>
    LET spx == lem.rule[c.x0.rp].precsym
        spy == lem.rule[c.y0.rp].precsym
        px == IF spx = NoSym THEN -1 ELSE lem.symbols[spx].prec
        py == IF spy = NoSym THEN -1 ELSE lem.symbols[spy].prec
    IN /\ c.x0.index < c.y0.index
       /\ IF spx = NoSym \/ spy = NoSym \/ px < 0 \/ py < 0 \/ px = py
          THEN /\ c.x1 = c.x0
               /\ c.y1 = [c.y0 EXCEPT !.typ = RRCONFLICT]
               /\ c.n1 = c.n0 + 1
          ELSE /\ c.n1 = c.n0
               /\ px > py =>
                    c.x1 = c.x0 /\ c.y1 = [c.y0 EXCEPT !.typ = RD_RESOLVED]
               /\ px < py =>
                    c.y1 = c.y0 /\ c.x1 = [c.x0 EXCEPT !.typ = RD_RESOLVED]

\* C7 witness: two Reduces of which the later rule has the higher
\* precedence, so that the earlier action is the one dropped.
C7_Witness ==
  \E c \in call :
    /\ c.x0.typ = REDUCE /\ c.y0.typ = REDUCE
    /\ c.x1.typ = RD_RESOLVED /\ c.y1.typ = REDUCE
    /\ c.n1 = c.n0

(***************************************************************************)
(* The grammar.  A grammar G (the fields of struct lemon that Parse and    *)
(* the symbol sort of main leave) is a record with                         *)
(*   symbols   index -> [typ, prec, assoc, subsym], {default} at nsymbol   *)
(*   rule      index -> [index, iRule, lhs, rhs, precsym, noCode]          *)
(*   order     the rule indices in the order of the list lemp.rule         *)
(*   nsymbol, nterminal, nrule, start, wildcard, errsym                    *)
(***************************************************************************)
RECURSIVE SeqOf(_)
\* The members of a finite set as a sequence, in some order.
SeqOf(S) ==
  IF S = {} THEN << >>
  ELSE LET x == CHOOSE x \in S : TRUE IN <<x>> \o SeqOf(S \ {x})

Range(q) == {q[k] : k \in 1..Len(q)}

RECURSIVE FirstRhsPrec(_, _, _)
\* The first symbol of rhs, from position i on, with a defined precedence.
FirstRhsPrec(G, rhs, i) ==
  IF i > Len(rhs) THEN NoSym
  ELSE LET sp == G.symbols[rhs[i]] IN
       IF sp.typ = MULTITERMINAL
       THEN LET js == {j \in 1..Len(sp.subsym) :
                         G.symbols[sp.subsym[j]].prec >= 0}
            IN IF js # {} THEN sp.subsym[Min(js)]
               ELSE FirstRhsPrec(G, rhs, i + 1)
       ELSE IF sp.prec >= 0 THEN rhs[i]
       ELSE FirstRhsPrec(G, rhs, i + 1)

\* FindRulePrecedences that leaves every rule as parsed.
FindRulePrecedences_None(G) == G

FindRulePrecedences(G) ==
  [G EXCEPT !.rule = [r \in DOMAIN G.rule |->
     IF G.rule[r].precsym = NoSym
     THEN [G.rule[r] EXCEPT !.precsym = FirstRhsPrec(G, G.rule[r].rhs, 1)]
     ELSE G.rule[r]]]

(***************************************************************************)
(* FindFirstSets.  lam maps every symbol to its lambda flag and fs every   *)
(* nonterminal to its first set; a pass is one run of the body of a "for"  *)
(* loop over the rule list, updating in place.                             *)
(***************************************************************************)
\* The positions of rhs scanned by the lambda loop: up to and including
\* the first symbol that is not lambda.
LambdaScan(lam, rhs) ==
  LET stops == {i \in 1..Len(rhs) : ~lam[rhs[i]]}
  IN IF stops = {} THEN 1..Len(rhs) ELSE 1..Min(stops)

RECURSIVE LambdaPass(_, _, _)
\* One pass of the lambda loop from the state st = [lambda, progress,
\* panic] over the rules todo.
LambdaPass(G, st, todo) ==
  IF todo = << >> \/ st.panic THEN st
  ELSE LET rp == G.rule[Head(todo)]
           scan == LambdaScan(st.lambda, rp.rhs)
           bad == \E i \in scan : G.symbols[rp.rhs[i]].typ # NONTERMINAL
                                   /\ st.lambda[rp.rhs[i]]
           all == \A i \in 1..Len(rp.rhs) : st.lambda[rp.rhs[i]]
       IN IF st.lambda[rp.lhs] THEN LambdaPass(G, st, Tail(todo))
          ELSE IF bad THEN [st EXCEPT !.panic = TRUE]
          ELSE IF all
          THEN LambdaPass(G, [st EXCEPT !.lambda[rp.lhs] = TRUE,
                                        !.progress = TRUE], Tail(todo))
          ELSE LambdaPass(G, st, Tail(todo))

RECURSIVE LambdaLoop(_, _)
\* The lambda loop: passes until one makes no progress.
LambdaLoop(G, st) ==
  LET st1 == LambdaPass(G, [st EXCEPT !.progress = FALSE], G.order)
  IN IF st1.progress /\ ~st1.panic THEN LambdaLoop(G, st1) ELSE st1

\* The flags at the head of FindFirstSets: Symbol_new left every flag
\* false and the first loop clears those of the symbols below nsymbol.
LambdaStart(G) ==
  [lambda |-> [s \in DOMAIN G.symbols |-> FALSE], progress |-> FALSE,
   panic |-> FALSE]

\* FindFirstSets makes the map firstset of the symbols nterminal..nsymbol-1
\* only; the firstset of every other symbol is the nil map.
HasFirstset(G, s) == G.nterminal <= s /\ s < G.nsymbol

\* SetAdd or SetUnion of the elements add into the firstset of s1 from
\* w = [fs, panic]: writing an entry of a nil map panics.
SetUnion(G, w, s1, add) ==
  IF add \subseteq w.fs[s1] THEN w
  ELSE IF HasFirstset(G, s1) THEN [w EXCEPT !.fs[s1] = @ \cup add]
  ELSE [w EXCEPT !.panic = TRUE]

RECURSIVE FirstOfRule(_, _, _, _, _)
\* The inner loop of the first-set pass for the rule rp from position i,
\* from w = [fs, panic].
FirstOfRule(G, lam, w, rp, i) ==
  IF i > Len(rp.rhs) \/ w.panic THEN w
  ELSE LET s1 == rp.lhs
           s2 == rp.rhs[i]
       IN IF G.symbols[s2].typ = TERMINAL
          THEN IF HasFirstset(G, s1) THEN SetUnion(G, w, s1, {s2})
               ELSE [w EXCEPT !.panic = TRUE]
          ELSE IF G.symbols[s2].typ = MULTITERMINAL
          THEN IF HasFirstset(G, s1) \/ G.symbols[s2].subsym = << >>
               THEN SetUnion(G, w, s1, Range(G.symbols[s2].subsym))
               ELSE [w EXCEPT !.panic = TRUE]
          ELSE IF s1 = s2
          THEN IF lam[s1] THEN FirstOfRule(G, lam, w, rp, i + 1) ELSE w
          ELSE LET w1 == SetUnion(G, w, s1, w.fs[s2])
               IN IF lam[s2] THEN FirstOfRule(G, lam, w1, rp, i + 1)
                  ELSE w1

RECURSIVE FirstPass(_, _, _, _)
\* One pass of the first-set loop over the rules todo.
FirstPass(G, lam, w, todo) ==
  IF todo = << >> \/ w.panic THEN w
  ELSE FirstPass(G, lam, FirstOfRule(G, lam, w, G.rule[Head(todo)], 1),
                 Tail(todo))

RECURSIVE FirstLoop(_, _, _)
\* The first-set loop: passes until one adds nothing.
FirstLoop(G, lam, w) ==
  LET w1 == FirstPass(G, lam, w, G.order)
  IN IF w1.fs # w.fs /\ ~w1.panic THEN FirstLoop(G, lam, w1) ELSE w1

\* The first sets at the head of the first-set loop.
FirstStart(G) == [fs |-> [s \in DOMAIN G.symbols |-> {}], panic |-> FALSE]

\* FindFirstSets: G with the lambda flag and the first set of each symbol.
FindFirstSets(G) ==
  LET lam == LambdaLoop(G, LambdaStart(G)).lambda
      fs == FirstLoop(G, lam, FirstStart(G)).fs
  IN [G EXCEPT !.symbols = [s \in DOMAIN G.symbols |->
        [typ |-> G.symbols[s].typ, prec |-> G.symbols[s].prec,
         assoc |-> G.symbols[s].assoc, subsym |-> G.symbols[s].subsym,
         lambda |-> lam[s], firstset |-> fs[s]]]]

(***************************************************************************)
(* FindStates.  A configuration is [rp, dot]; a state is a record          *)
(*   [id, statenum, bp, cfp, fws, ap, ...]                                 *)
(* with bp and cfp the sorted basis and closure, fws the follow set of     *)
(* each configuration and ap the action list.  id is the number the state  *)
(* got when it was made: an action's stp and a link's ends name states by  *)
(* id.  The builder is the record [states, nact, links]: the states made   *)
(* so far, the counter actionIndex, and the propagation links as pairs     *)
(* <<from, to>> of [stp, rp, dot].                                         *)
(***************************************************************************)
AfterDot(G, c) ==
  IF c.dot < Len(G.rule[c.rp].rhs) THEN G.rule[c.rp].rhs[c.dot + 1] ELSE NoSym

Configcmp_DotFirst(G, a, b) ==
  IF a.dot # b.dot THEN a.dot - b.dot
  ELSE G.rule[a.rp].index - G.rule[b.rp].index

Configcmp(G, a, b) ==
  LET x == G.rule[a.rp].index - G.rule[b.rp].index
  IN IF x = 0 THEN a.dot - b.dot ELSE x

\* msort__config: the configurations S in the order of Configcmp.
SortConfigs(G, S) == SortSeq(SeqOf(S), LAMBDA a, b : Configcmp(G, a, b) < 0)

same_symbol(G, a, b) ==
  \/ a = b
  \/ /\ G.symbols[a].typ = MULTITERMINAL
     /\ G.symbols[b].typ = MULTITERMINAL
     /\ G.symbols[a].subsym = G.symbols[b].subsym

RECURSIVE RestFirst(_, _, _)
\* The scan of Configlist_closure over rhs from position i: the terminals
\* it adds to the follow set, and whether it ran off the end of the rule.
RestFirst(G, rhs, i) ==
  IF i > Len(rhs) THEN [fws |-> {}, thru |-> TRUE]
  ELSE LET xsp == G.symbols[rhs[i]] IN
       IF xsp.typ = TERMINAL THEN [fws |-> {rhs[i]}, thru |-> FALSE]
       ELSE IF xsp.typ = MULTITERMINAL
       THEN [fws |-> Range(xsp.subsym), thru |-> FALSE]
       ELSE IF xsp.lambda
       THEN LET r == RestFirst(G, rhs, i + 1)
            IN [fws |-> xsp.firstset \cup r.fws, thru |-> r.thru]
       ELSE [fws |-> xsp.firstset, thru |-> FALSE]

\* The configurations of C that Configlist_closure expands into c.
Parents(G, C, c) ==
  {d \in C : /\ c.dot = 0
             /\ AfterDot(G, d) # NoSym
             /\ G.symbols[AfterDot(G, d)].typ = NONTERMINAL
             /\ G.rule[c.rp].lhs = AfterDot(G, d)}

RECURSIVE Configlist_closure(_, _)
Configlist_closure(G, C) ==
  LET new == {[rp |-> r, dot |-> 0] : r \in
                {r \in DOMAIN G.rule : \E d \in C :
                    /\ AfterDot(G, d) # NoSym
                    /\ G.symbols[AfterDot(G, d)].typ = NONTERMINAL
                    /\ G.rule[r].lhs = AfterDot(G, d)}}
  IN IF new \subseteq C THEN C ELSE Configlist_closure(G, C \cup new)

\* The distinct symbols after the dots of cfp, in the order buildshifts
\* meets them.
ShiftSyms(G, cfp) ==
  LET first(k) == /\ AfterDot(G, cfp[k]) # NoSym
                  /\ \A m \in 1..(k - 1) :
                        \/ AfterDot(G, cfp[m]) = NoSym
                        \/ ~same_symbol(G, AfterDot(G, cfp[m]),
                                        AfterDot(G, cfp[k]))
      ks == SeqOfSet({k \in 1..Len(cfp) : first(k)})
  IN [n \in 1..Len(ks) |-> AfterDot(G, cfp[ks[n]])]

\* The symbols a SHIFT on sp is added for.
ShiftTargets(G, sp) ==
  IF G.symbols[sp].typ = MULTITERMINAL THEN G.symbols[sp].subsym ELSE <<sp>>

RECURSIVE AddShifts(_, _, _, _)
\* Action_add of a SHIFT to the state newstp for each symbol of sps.
AddShifts(ap, nact, sps, newstp) ==
  IF sps = << >> THEN ap
  ELSE AddShifts(Action_add(ap, nact + 1, SHIFT, Head(sps), newstp, NoRule),
                 nact + 1, Tail(sps), newstp)

\* Plink_copy with the list "from" dropped.
Plink_copy_Lost(to, from) == to

\* Plink_copy: every link of the list "from" is moved onto the list "to".
Plink_copy(to, from) == to \cup from

RECURSIVE getstate(_, _, _, _)
RECURSIVE buildshifts(_, _, _, _)

\* getstate for the sorted basis bp built from the state "from" (NoState
\* for the first state): the builder after the call and the id of the
\* state returned.
\* The errors "Nonterminal has no rules" of Configlist_closure on the
\* closure cl: one for each configuration with such a symbol after its dot.
NoRulesErrors(G, cl) ==
  Cardinality({c \in cl :
     /\ AfterDot(G, c) # NoSym
     /\ G.symbols[AfterDot(G, c)].typ = NONTERMINAL
     /\ AfterDot(G, c) # G.errsym
     /\ \A r \in DOMAIN G.rule : G.rule[r].lhs # AfterDot(G, c)})

getstate(G, b, bp, from) ==
  LET hit == {n \in 1..Len(b.states) : b.states[n].bp = bp}
      back(n) == IF from = NoState THEN {}
                 ELSE {<<[stp |-> from, rp |-> bp[k].rp, dot |-> bp[k].dot - 1],
                         [stp |-> n, rp |-> bp[k].rp, dot |-> bp[k].dot]>> :
                       k \in 1..Len(bp)}
  IN IF hit # {}
     THEN LET n == Min(hit) - 1
          IN [b |-> [b EXCEPT !.links = Plink_copy(@, back(n))], stp |-> n]
     ELSE LET n == Len(b.states)
              cl == Configlist_closure(G, Range(bp))
              cfp == SortConfigs(G, cl)
              fws == [c \in cl |->
                        (IF from = NoState /\ c \in Range(bp) THEN {0} ELSE {})
                        \cup UNION {RestFirst(G, G.rule[d.rp].rhs, d.dot + 2).fws :
                                      d \in Parents(G, cl, c)}]
              inner == {<<[stp |-> n, rp |-> d.rp, dot |-> d.dot],
                          [stp |-> n, rp |-> c.rp, dot |-> c.dot]>> :
                        <<d, c>> \in {x \in cl \X cl :
                           /\ x[1] \in Parents(G, cl, x[2])
                           /\ RestFirst(G, G.rule[x[1].rp].rhs,
                                        x[1].dot + 2).thru}}
              st == [id |-> n, statenum |-> n, bp |-> bp, cfp |-> cfp,
                     fws |-> fws, ap |-> << >>, nTknAct |-> 0, nNtAct |-> 0,
                     iTknOfst |-> 0, iNtOfst |-> 0, iDfltReduce |-> 0,
                     autoReduce |-> FALSE, pDfltReduce |-> NoRule]
              b1 == [b EXCEPT !.states = Append(@, st),
                              !.links = @ \cup back(n) \cup inner,
                              !.nerr = @ + NoRulesErrors(G, cl)]
          IN [b |-> buildshifts(G, b1, n, ShiftSyms(G, cfp)), stp |-> n]

\* The loop of buildshifts for the state n over the symbols syms.
buildshifts(G, b, n, syms) ==
  IF syms = << >> THEN b
  ELSE LET sp == Head(syms)
           cfp == b.states[n + 1].cfp
           basis == {[rp |-> cfp[k].rp, dot |-> cfp[k].dot + 1] :
                       k \in {k \in 1..Len(cfp) :
                                /\ AfterDot(G, cfp[k]) # NoSym
                                /\ same_symbol(G, AfterDot(G, cfp[k]), sp)}}
           r == getstate(G, b, SortConfigs(G, basis), n)
           tg == ShiftTargets(G, sp)
           b2 == [r.b EXCEPT
                    !.states[n + 1].ap = AddShifts(@, r.b.nact, tg, r.stp),
                    !.nact = @ + Len(tg)]
       IN buildshifts(G, b2, n, Tail(syms))

\* FindStates: the builder after getstate on the rules of the start symbol.
FindStates(G) ==
  LET basis == {[rp |-> r, dot |-> 0] :
                  r \in {r \in DOMAIN G.rule : G.rule[r].lhs = G.start}}
      onRhs == UNION {{<<r, i>> : i \in {i \in 1..Len(G.rule[r].rhs) :
                                            G.rule[r].rhs[i] = G.start}} :
                      r \in DOMAIN G.rule}
  IN getstate(G, [states |-> << >>, nact |-> 0, links |-> {},
                  nerr |-> Cardinality(onRhs)],
              SortConfigs(G, basis), NoState).b

RECURSIVE Propagate(_, _)
\* FindLinks and FindFollowSets: every follow set united into the follow
\* sets its forward links lead to, until nothing changes.
Propagate(states, links) ==
  LET into(c) == {l[1] : l \in {l \in links : l[2] = c}}
      next == [n \in 1..Len(states) |->
                 [states[n] EXCEPT !.fws = [c \in DOMAIN states[n].fws |->
                    states[n].fws[c] \cup
                    UNION {states[d.stp + 1].fws[[rp |-> d.rp, dot |-> d.dot]] :
                             d \in into([stp |-> n - 1, rp |-> c.rp,
                                         dot |-> c.dot])}]]]
  IN IF next = states THEN states ELSE Propagate(next, links)

(***************************************************************************)
(* The grammars the generator is run on: the expression grammar            *)
(*     %token OP1 OP2 ID.   [%left|%right|%nonassoc declarations]          *)
(*     s ::= e.   e ::= e OP1 e. [M1]   e ::= e OP2 e. [M2]   e ::= ID.    *)
(* The symbols sort to $ 0, OP1 1, OP2 2, ID 3, s 4, e 5, {default} 6.     *)
(* Each operator has no precedence or one of 1..MaxLevel with an           *)
(* associativity, tokens of one level sharing it (one declaration); the    *)
(* precedence mark of an operator rule is absent or names either operator; *)
(* all rules carry code, or none does.                                     *)
(***************************************************************************)
MaxLevel == 2

LevelChoices == {<<-1, UNK>>} \cup ((1..MaxLevel) \X {LEFT, RIGHT, NONE})

Sym(typ, pa) ==
  [typ |-> typ, prec |-> pa[1], assoc |-> pa[2], subsym |-> << >>]

Rule(index, lhs, rhs, precsym, noCode) ==
  [index |-> index, iRule |-> index, lhs |-> lhs, rhs |-> rhs,
   precsym |-> precsym, noCode |-> noCode]

ExprGrammar(pa1, pa2, m1, m2, noCode) ==
  [symbols |-> [s \in 0..6 |->
       IF s = 1 THEN Sym(TERMINAL, pa1)
       ELSE IF s = 2 THEN Sym(TERMINAL, pa2)
       ELSE IF s = 3 THEN Sym(TERMINAL, <<-1, UNK>>)
       ELSE Sym(NONTERMINAL, <<-1, UNK>>)],
   rule |-> [r \in 0..3 |->
       IF r = 0 THEN Rule(0, 4, <<5>>, NoSym, noCode)
       ELSE IF r = 1 THEN Rule(1, 5, <<5, 1, 5>>, m1, noCode)
       ELSE IF r = 2 THEN Rule(2, 5, <<5, 2, 5>>, m2, noCode)
       ELSE Rule(3, 5, <<3>>, NoSym, noCode)],
   order |-> <<0, 1, 2, 3>>,
   nsymbol |-> 6, nterminal |-> 4, nrule |-> 4, start |-> 4,
   wildcard |-> NoSym, errsym |-> NoSym]

Grammars ==
  {ExprGrammar(pa[1], pa[2], m1, m2, noCode) :
     pa \in {x \in LevelChoices \X LevelChoices :
               x[1][1] = x[2][1] => x[1][2] = x[2][2]},
     m1 \in {NoSym, 1, 2}, m2 \in {NoSym, 1, 2}, noCode \in BOOLEAN}

(***************************************************************************)
(* FindActions.  L is the grammar G extended with the fields of struct     *)
(* lemon the later phases use: sorted (the states), nstate, nxstate, nact, *)
(* nconflict, errorcnt, the action encoding, and failed, set when an       *)
(* assertion stopped the program.                                          *)
(***************************************************************************)
RECURSIVE ReducePairs(_, _, _)
\* The <<rule, lookahead>> of the REDUCE actions FindActions adds to the
\* state st, in the order it adds them, from configuration k on.
ReducePairs(G, st, k) ==
  IF k > Len(st.cfp) THEN << >>
  ELSE LET c == st.cfp[k]
           js == IF Len(G.rule[c.rp].rhs) = c.dot
                 THEN SeqOfSet(st.fws[c] \cap (0..(G.nterminal - 1)))
                 ELSE << >>
       IN [n \in 1..Len(js) |-> <<c.rp, js[n]>>] \o ReducePairs(G, st, k + 1)

RECURSIVE AddReduces(_, _, _)
AddReduces(ap, nact, pairs) ==
  IF pairs = << >> THEN ap
  ELSE AddReduces(Action_add(ap, nact + 1, REDUCE, Head(pairs)[2], NoState,
                             Head(pairs)[1]),
                  nact + 1, Tail(pairs))

RECURSIVE AddAllReduces(_, _, _)
\* The first loop of FindActions from state n (1-based) on.
AddAllReduces(G, L, n) ==
  IF n > Len(L.sorted) THEN L
  ELSE LET pairs == ReducePairs(G, L.sorted[n], 1)
       IN AddAllReduces(G,
            [L EXCEPT !.sorted[n].ap = AddReduces(@, L.nact, pairs),
                      !.nact = @ + Len(pairs)],
            n + 1)

RECURSIVE ResolveStates(_, _)
\* The second loop of FindActions from state n (1-based) on.
ResolveStates(L, n) ==
  IF n > Len(L.sorted) \/ L.failed THEN L
  ELSE LET r == ResolveAll(L.symbols, L.rule,
                           ResolveStart(L.rule, L.sorted[n].ap, L.nconflict))
       IN ResolveStates([L EXCEPT !.sorted[n].ap = r.ap,
                                  !.nconflict = r.nconflict,
                                  !.failed = r.failed], n + 1)

CanReduce_FirstStateOnly(L) ==
  {r \in DOMAIN L.rule : \E n \in {1} \cap DOMAIN L.sorted :
      \E k \in 1..Len(L.sorted[n].ap) :
         L.sorted[n].ap[k].typ = REDUCE /\ L.sorted[n].ap[k].rp = r}

\* The rules some state holds a REDUCE action for.
CanReduce(L) ==
  {r \in DOMAIN L.rule : \E n \in 1..Len(L.sorted) :
      \E k \in 1..Len(L.sorted[n].ap) :
         L.sorted[n].ap[k].typ = REDUCE /\ L.sorted[n].ap[k].rp = r}

FindActions(L0) ==
  LET L1 == AddAllReduces(L0, L0, 1)
      L2 == [L1 EXCEPT !.sorted[1].ap =
                          Action_add(@, L1.nact + 1, ACCEPT, L1.start,
                                     NoState, NoRule),
                       !.nact = @ + 1]
      L3 == ResolveStates(L2, 1)
  IN IF L3.failed THEN L3
     ELSE [L3 EXCEPT !.canReduce = CanReduce(L3),
                     !.errorcnt =
                        @ + Cardinality(DOMAIN L3.rule \ CanReduce(L3))]

(***************************************************************************)
(* CompressTables.                                                         *)
(***************************************************************************)
lhsStart_Never(L, r) == FALSE

lhsStart(L, r) == L.rule[r].lhs = L.start

RECURSIVE BestRule(_, _, _, _)
\* The scan for the most frequent REDUCE rule of ap from position k on,
\* from best = [nbest, rbest].
BestRule(L, ap, k, best) ==
  IF k > Len(ap) THEN best
  ELSE IF \/ ap[k].typ # REDUCE
          \/ lhsStart(L, ap[k].rp)
          \/ ap[k].rp = best.rbest
  THEN BestRule(L, ap, k + 1, best)
  ELSE LET n == 1 + Cardinality({m \in (k + 1)..Len(ap) :
                                   /\ ap[m].typ = REDUCE
                                   /\ ap[m].rp # best.rbest
                                   /\ ap[m].rp = ap[k].rp})
       IN BestRule(L, ap, k + 1,
                   IF n > best.nbest THEN [nbest |-> n, rbest |-> ap[k].rp]
                   ELSE best)

\* The first pass of CompressTables over one state.
CompressState(L, st) ==
  LET ap == st.ap
      usesWildcard == \E k \in 1..Len(ap) :
                         ap[k].typ = SHIFT /\ ap[k].sp = L.wildcard
      best == BestRule(L, ap, 1, [nbest |-> 0, rbest |-> NoRule])
      hits == {k \in 1..Len(ap) :
                 ap[k].typ = REDUCE /\ ap[k].rp = best.rbest}
      ap1 == [k \in 1..Len(ap) |->
                IF k = Min(hits) THEN [ap[k] EXCEPT !.sp = L.nsymbol]
                ELSE IF k \in hits THEN [ap[k] EXCEPT !.typ = NOT_USED]
                ELSE ap[k]]
      ap2 == Action_sort(L.rule, ap1)
      auto == \A k \in 1..Len(ap2) :
                 /\ ap2[k].typ # SHIFT
                 /\ ~(ap2[k].typ = REDUCE /\ ap2[k].rp # best.rbest)
  IN IF best.nbest < 1 \/ usesWildcard THEN st
     ELSE [st EXCEPT !.ap = ap2,
                     !.autoReduce = auto,
                     !.pDfltReduce = IF auto THEN best.rbest ELSE NoRule]

StateOf(L, id) == L.sorted[CHOOSE n \in 1..Len(L.sorted) : L.sorted[n].id = id]

\* The second pass leaving every SHIFT as it is.
ShiftToShiftReduce_Kept(L, a) == a

\* The second pass of CompressTables over one action.
ShiftToShiftReduce(L, a) ==
  IF a.typ = SHIFT /\ StateOf(L, a.stp).autoReduce
                   /\ StateOf(L, a.stp).pDfltReduce # NoRule
  THEN [a EXCEPT !.typ = SHIFTREDUCE, !.rp = StateOf(L, a.stp).pDfltReduce]
  ELSE a

RECURSIVE UnitReduce(_, _, _)
\* The third pass of CompressTables over the list ap from position k on;
\* failed is set when no action on the rule's left-hand side is found.
UnitReduce(L, r, k) ==
  IF k > Len(r.ap) \/ r.failed THEN r
  ELSE LET a == r.ap[k] IN
       IF \/ a.typ # SHIFTREDUCE
          \/ ~L.rule[a.rp].noCode
          \/ Len(L.rule[a.rp].rhs) # 1
          \/ a.sp < L.nterminal
       THEN UnitReduce(L, r, k + 1)
       ELSE LET m == {j \in 1..Len(r.ap) :
                        j # k /\ r.ap[j].sp = L.rule[a.rp].lhs}
            IN IF m = {} THEN [r EXCEPT !.failed = TRUE]
               ELSE UnitReduce(L,
                      [r EXCEPT !.ap[k] =
                         [a EXCEPT !.spOpt = r.ap[Min(m)].sp,
                                   !.typ = r.ap[Min(m)].typ,
                                   !.stp = r.ap[Min(m)].stp,
                                   !.rp = r.ap[Min(m)].rp]],
                      k)

CompressTables(L0) ==
  LET L1 == [L0 EXCEPT !.sorted = [n \in 1..Len(L0.sorted) |->
                                     CompressState(L0, L0.sorted[n])]]
      L2 == [L1 EXCEPT !.sorted = [n \in 1..Len(L1.sorted) |->
               [L1.sorted[n] EXCEPT !.ap = [k \in 1..Len(L1.sorted[n].ap) |->
                  ShiftToShiftReduce(L1, L1.sorted[n].ap[k])]]]]
      un == [n \in 1..Len(L2.sorted) |->
               UnitReduce(L2, [ap |-> L2.sorted[n].ap, failed |-> FALSE], 1)]
  IN [L2 EXCEPT !.sorted = [n \in 1..Len(L2.sorted) |->
                              [L2.sorted[n] EXCEPT !.ap = un[n].ap]],
                !.failed = \E n \in 1..Len(L2.sorted) : un[n].failed]

(***************************************************************************)
(* ResortStates and the action encoding.                                   *)
(***************************************************************************)
NO_OFFSET == -2147483647

compute_action(L, ap) ==
  IF ap.typ = SHIFT THEN StateOf(L, ap.stp).statenum
  ELSE IF ap.typ = SHIFTREDUCE
  THEN IF ap.sp >= L.nterminal /\ (L.errsym = NoSym \/ ap.sp # L.errsym)
       THEN L.minReduce + L.rule[ap.rp].iRule
       ELSE L.minShiftReduce + L.rule[ap.rp].iRule
  ELSE IF ap.typ = REDUCE THEN L.minReduce + L.rule[ap.rp].iRule
  ELSE IF ap.typ = ERROR THEN L.errAction
  ELSE IF ap.typ = ACCEPT THEN L.accAction
  ELSE -1

\* The first loop of ResortStates over one state; bad is set when the
\* assertion on the default action fails.
CountActions(L, st) ==
  LET live == {k \in 1..Len(st.ap) : compute_action(L, st.ap[k]) >= 0}
      dflt == {k \in live : st.ap[k].sp >= L.nsymbol}
  IN [st |-> [st EXCEPT
        !.nTknAct = Cardinality({k \in live : st.ap[k].sp < L.nterminal}),
        !.nNtAct = Cardinality({k \in live : /\ st.ap[k].sp >= L.nterminal
                                             /\ st.ap[k].sp < L.nsymbol}),
        !.iDfltReduce = IF dflt = {} THEN -1
                        ELSE compute_action(L, st.ap[Max(dflt)]),
        !.iTknOfst = NO_OFFSET,
        !.iNtOfst = NO_OFFSET],
      bad |-> \E k \in dflt :
                 st.autoReduce /\ st.pDfltReduce # st.ap[k].rp]

\* stateResortCompare with the tie on the counts broken by increasing number.
stateResortCompare_Ascending(pA, pB) ==
  LET n1 == pB.nNtAct - pA.nNtAct
      n2 == IF n1 = 0 THEN pB.nTknAct - pA.nTknAct ELSE n1
  IN IF n2 = 0 THEN pA.statenum - pB.statenum ELSE n2

stateResortCompare(pA, pB) ==
  LET n1 == pB.nNtAct - pA.nNtAct
      n2 == IF n1 = 0 THEN pB.nTknAct - pA.nTknAct ELSE n1
  IN IF n2 = 0 THEN pB.statenum - pA.statenum ELSE n2

RECURSIVE Trim(_, _)
\* nxstate: n lowered while the last of the first n states is autoReduce.
Trim(sorted, n) ==
  IF n > 1 /\ sorted[n].autoReduce THEN Trim(sorted, n - 1) ELSE n

ResortStates(L) ==
  LET cnt == [n \in 1..Len(L.sorted) |-> CountActions(L, L.sorted[n])]
      counted == [n \in 1..Len(L.sorted) |-> cnt[n].st]
      rest == SortSeq(Tail(counted),
                      LAMBDA a, b : stateResortCompare(a, b) < 0)
      all == <<Head(counted)>> \o rest
      renum == [n \in 1..Len(all) |-> [all[n] EXCEPT !.statenum = n - 1]]
  IN IF \E n \in 1..Len(L.sorted) : cnt[n].bad
     THEN [L EXCEPT !.failed = TRUE]
     ELSE [L EXCEPT !.sorted = renum,
                    !.nxstate = Trim(renum, L.nstate)]

\* ActionEncoding anchored at nxstate.
ActionEncoding_AtNxstate(L) ==
  LET minShiftReduce == L.nxstate
      errAction == minShiftReduce + L.nrule
      accAction == errAction + 1
      noAction == accAction + 1
      minReduce == noAction + 1
  IN [L EXCEPT !.minShiftReduce = minShiftReduce,
               !.errAction = errAction,
               !.accAction = accAction,
               !.noAction = noAction,
               !.minReduce = minReduce,
               !.maxAction = minReduce + L.nrule]

(***************************************************************************)
(* ReportTable: the encoding, and the packing of the action sets.          *)
(***************************************************************************)
ActionEncoding(L) ==
  LET minShiftReduce == L.nstate
      errAction == minShiftReduce + L.nrule
      accAction == errAction + 1
      noAction == accAction + 1
      minReduce == noAction + 1
  IN [L EXCEPT !.minShiftReduce = minShiftReduce,
               !.errAction = errAction,
               !.accAction = accAction,
               !.noAction = noAction,
               !.minReduce = minReduce,
               !.maxAction = minReduce + L.nrule]

axset_compare(p1, p2) ==
  LET c == p2.nAction - p1.nAction
  IN IF c = 0 THEN p1.iOrder - p2.iOrder ELSE c

\* The action sets of the states below nxstate, largest first.
ActionSets(L) ==
  LET ax == [i \in 1..(2 * L.nxstate) |->
               LET st == L.sorted[(i + 1) \div 2] IN
               [stp |-> (i + 1) \div 2, isTkn |-> i % 2 = 1,
                nAction |-> IF i % 2 = 1 THEN st.nTknAct ELSE st.nNtAct,
                iOrder |-> i - 1]]
  IN SortSeq(ax, LAMBDA a, b : axset_compare(a, b) < 0)

RECURSIVE RowOf(_, _, _, _)
\* The calls of acttab_action for one action set of the list ap, from
\* position k on.
RowOf(L, ap, isTkn, k) ==
  IF k > Len(ap) THEN << >>
  ELSE LET a == ap[k]
           skip == \/ isTkn /\ a.sp >= L.nterminal
                   \/ ~isTkn /\ (a.sp < L.nterminal \/ a.sp = L.nsymbol)
                   \/ compute_action(L, a) < 0
       IN (IF skip THEN << >>
           ELSE <<[lookahead |-> a.sp, action |-> compute_action(L, a)]>>)
          \o RowOf(L, ap, isTkn, k + 1)

RECURSIVE PackSets(_, _, _)
\* The packing loop over the action sets ax from w = [L, tab, panic].
PackSets(w, ax, i) ==
  IF i > Len(ax) \/ w.panic THEN w
  ELSE IF ax[i].nAction <= 0 THEN w
  ELSE LET n == ax[i].stp
           row == RowOf(w.L, w.L.sorted[n].ap, ax[i].isTkn, 1)
           r == acttab_insert(FeedRow(w.tab, row), ax[i].isTkn)
           L1 == IF ax[i].isTkn
                 THEN [w.L EXCEPT !.sorted[n].iTknOfst = r.ofst]
                 ELSE [w.L EXCEPT !.sorted[n].iNtOfst = r.ofst]
       IN PackSets([L |-> L1, tab |-> r.tab, panic |-> r.panic], ax, i + 1)

\* ReportTable up to the end of the packing loop: [L, tab, panic].
ReportTable(L0) ==
  LET L == ActionEncoding(L0)
  IN PackSets([L |-> L, tab |-> acttab_alloc(L.nsymbol, L.nterminal),
               panic |-> FALSE],
              ActionSets(L), 1)

(***************************************************************************)
(* The emitted tables.                                                     *)
(***************************************************************************)
acttab_action_size(q) ==
  LET used == {n \in 1..q.nAction : q.aAction[n - 1].lookahead >= 0}
  IN IF used = {} THEN 0 ELSE Max(used)

yy_action(L, q, i) ==
  IF q.aAction[i].action < 0 THEN L.noAction ELSE q.aAction[i].action

yy_lookahead(L, q, i) ==
  IF i < q.nAction
  THEN IF q.aAction[i].lookahead < 0 THEN L.nsymbol
       ELSE q.aAction[i].lookahead
  ELSE L.nterminal

\* The number of entries of yy_shift_ofst[].
RECURSIVE ShiftCount(_, _)
ShiftCount(L, n) ==
  IF n > 0 /\ L.sorted[n].iTknOfst = NO_OFFSET THEN ShiftCount(L, n - 1)
  ELSE n

yy_shift_ofst(L, q, s) ==
  IF L.sorted[s + 1].iTknOfst = NO_OFFSET THEN acttab_action_size(q)
  ELSE L.sorted[s + 1].iTknOfst

yy_default(L, s) ==
  IF L.sorted[s + 1].iDfltReduce < 0 THEN L.errAction
  ELSE L.sorted[s + 1].iDfltReduce + L.minReduce

\* mnNtOfst of ReportTable: the least offset a nonterminal action set was
\* packed at, 0 when it is not below 0.
mnNtOfst(L) ==
  Min({0} \cup {L.sorted[n].iNtOfst :
                  n \in {m \in 1..L.nxstate :
                           L.sorted[m].iNtOfst # NO_OFFSET}})

\* The number of entries of yy_reduce_ofst[].
RECURSIVE ReduceCount(_, _)
ReduceCount(L, n) ==
  IF n > 0 /\ L.sorted[n].iNtOfst = NO_OFFSET THEN ReduceCount(L, n - 1)
  ELSE n

yy_reduce_ofst(L, s) ==
  IF L.sorted[s + 1].iNtOfst = NO_OFFSET THEN mnNtOfst(L) - 1
  ELSE L.sorted[s + 1].iNtOfst

\* The rule numbered i in the rule list ReportTable walks.
RuleAt(L, i) == CHOOSE r \in DOMAIN L.rule : L.rule[r].iRule = i

yyRuleInfoLhs(L, i) == L.rule[RuleAt(L, i)].lhs

yyRuleInfoNRhs(L, i) == 0 - Len(L.rule[RuleAt(L, i)].rhs)

\* Everything ReportTable writes that the parser reads: the constants and
\* the tables, each table a function from 0.
EmittedTables(L, q) ==
  LET nactiontab == acttab_action_size(q)
      nLookAhead == IF q.nAction > L.nterminal + nactiontab THEN q.nAction
                    ELSE L.nterminal + nactiontab
  IN [YYNOCODE |-> L.nsymbol,
      YYERRORSYMBOL |-> IF L.errsym = NoSym THEN 0 ELSE L.errsym,
      YYNSTATE |-> L.nxstate,
      YYNRULE |-> L.nrule,
      YYNTOKEN |-> L.nterminal,
      YY_MAX_SHIFT |-> L.nxstate - 1,
      YY_MIN_SHIFTREDUCE |-> L.minShiftReduce,
      YY_MAX_SHIFTREDUCE |-> L.minShiftReduce + L.nrule - 1,
      YY_ERROR_ACTION |-> L.errAction,
      YY_ACCEPT_ACTION |-> L.accAction,
      YY_NO_ACTION |-> L.noAction,
      YY_MIN_REDUCE |-> L.minReduce,
      YY_ACTTAB_COUNT |-> nactiontab,
      YY_SHIFT_COUNT |-> ShiftCount(L, L.nxstate) - 1,
      YY_REDUCE_COUNT |-> ReduceCount(L, L.nxstate) - 1,
      yy_action |-> [i \in 0..(nactiontab - 1) |-> yy_action(L, q, i)],
      yy_lookahead |-> [i \in 0..(nLookAhead - 1) |-> yy_lookahead(L, q, i)],
      yy_shift_ofst |-> [s \in 0..(ShiftCount(L, L.nxstate) - 1) |->
                           yy_shift_ofst(L, q, s)],
      yy_reduce_ofst |-> [s \in 0..(ReduceCount(L, L.nxstate) - 1) |->
                            yy_reduce_ofst(L, s)],
      yy_default |-> [s \in 0..(L.nxstate - 1) |-> yy_default(L, s)],
      yyRuleInfoLhs |-> [i \in 0..(L.nrule - 1) |-> yyRuleInfoLhs(L, i)],
      yyRuleInfoNRhs |-> [i \in 0..(L.nrule - 1) |-> yyRuleInfoNRhs(L, i)]]

(***************************************************************************)
(* The generator run on a grammar: the phases of main after Parse and the  *)
(* symbol sort.  lem holds struct lemon and the command-line flags         *)
(* compress (-c) and noResort (-r); p is pActtab of ReportTable.           *)
(***************************************************************************)
Lemon(G, compress, noResort) ==
  [symbols |-> G.symbols, rule |-> G.rule, order |-> G.order,
   nsymbol |-> G.nsymbol, nterminal |-> G.nterminal, nrule |-> G.nrule,
   start |-> G.start, wildcard |-> G.wildcard, errsym |-> G.errsym,
   sorted |-> << >>, nstate |-> 0, nxstate |-> 0, nact |-> 0,
   nconflict |-> 0, errorcnt |-> 0, canReduce |-> {}, status |-> -1,
   minShiftReduce |-> 0, errAction |-> 0, accAction |-> 0, noAction |-> 0,
   minReduce |-> 0, maxAction |-> 0,
   failed |-> FALSE, compress |-> compress, noResort |-> noResort]

GenInit ==
  /\ \E G \in Grammars : \E compress \in BOOLEAN : \E noResort \in BOOLEAN :
        lem = Lemon(G, compress, noResort)
  /\ pc = "parsed"
  /\ p = Idle /\ rows = Idle /\ tabPanic = FALSE
  /\ rs = Idle /\ call = {}

\* The phase after FindActions, CompressTables or ResortStates.
PhaseAfter(L, phase) ==
  IF L.failed THEN "exit"
  ELSE IF phase = "actions" /\ ~L.compress THEN "compress"
  ELSE IF phase \in {"actions", "compress"} /\ ~L.noResort THEN "resort"
  ELSE "report"

\* FindRulePrecedences, FindFirstSets, FindStates, FindLinks and
\* FindFollowSets.
RunFindStates ==
  /\ pc = "parsed"
  /\ LET G == FindFirstSets(FindRulePrecedences(lem))
         b == FindStates(G)
     IN lem' = [G EXCEPT !.sorted = Propagate(b.states, b.links),
                         !.nstate = Len(b.states),
                         !.nact = b.nact,
                         !.errorcnt = @ + b.nerr]
  /\ pc' = "actions"
  /\ UNCHANGED <<actVars, rs, call>>

RunFindActions ==
  /\ pc = "actions"
  /\ lem' = FindActions(lem)
  /\ call' = {[errorcnt |-> lem.errorcnt]}
  /\ pc' = PhaseAfter(lem', "actions")
  /\ UNCHANGED <<actVars, rs>>

RunCompressTables ==
  /\ pc = "compress"
  /\ lem' = CompressTables(lem)
  /\ pc' = PhaseAfter(lem', "compress")
  /\ UNCHANGED <<actVars, rs, call>>

RunResortStates ==
  /\ pc = "resort"
  /\ lem' = ResortStates(lem)
  /\ pc' = PhaseAfter(lem', "resort")
  /\ UNCHANGED <<actVars, rs, call>>

RunReportTable ==
  /\ pc = "report"
  /\ LET w == ReportTable(lem)
     IN /\ lem' = w.L
        /\ p' = w.tab
        /\ tabPanic' = w.panic
        /\ pc' = IF w.panic THEN "exit" ELSE "done"
  /\ UNCHANGED <<rows, rs, call>>

\* The end of main: the exit status of a run that reached it.
RunExit ==
  /\ pc = "done"
  /\ lem' = [lem EXCEPT !.status = IF lem.errorcnt > 0 \/ lem.nconflict > 0
                                   THEN 1 ELSE 0]
  /\ pc' = "end"
  /\ UNCHANGED <<actVars, rs, call>>

GenNext ==
  \/ RunFindStates
  \/ RunFindActions
  \/ RunCompressTables
  \/ RunResortStates
  \/ RunReportTable
  \/ RunExit

SpecGen == GenInit /\ [][GenNext]_vars

(***************************************************************************)
(* Claims about the generator run.                                         *)
(***************************************************************************)
\* The run has just left FindActions.
AfterFindActions ==
  \/ pc = "compress"
  \/ pc = "resort" /\ lem.compress
  \/ pc = "report" /\ lem.compress /\ lem.noResort

Dropped == {SSCONFLICT, SRCONFLICT, RRCONFLICT, SH_RESOLVED, RD_RESOLVED}

\* C4: after FindActions, in every state and for every lookahead symbol at
\* most one action of kind Shift, Reduce, Accept, Error or ShiftReduce
\* remains; every other action on that lookahead is of a conflict or
\* resolved kind, for which compute_action gives no action number.
C4_OneSurvivor ==
  AfterFindActions =>
    \A n \in 1..Len(lem.sorted) :
      LET ap == lem.sorted[n].ap IN
      /\ \A s \in DOMAIN lem.symbols : Cardinality(Survivors(ap, s)) <= 1
      /\ \A k \in 1..Len(ap) :
            ap[k].typ \notin Emitted =>
              ap[k].typ \in Dropped /\ compute_action(lem, ap[k]) < 0

\* C5: in the emitted tables, the entry of lookahead t in the row of a
\* state in which a Shift and a Reduce on a Nonassoc token t had equal
\* precedence (the shift was made an Error action) holds the Error action
\* number, with and without default compression.
C5_NonassocYieldsError ==
  pc = "done" =>
    \A n \in 1..lem.nxstate : \A k \in 1..Len(lem.sorted[n].ap) :
      LET a == lem.sorted[n].ap[k]
          i == yy_shift_ofst(lem, p, n - 1) + a.sp
      IN (a.typ = ERROR /\ a.sp < lem.nterminal) =>
           /\ n <= ShiftCount(lem, lem.nxstate)
           /\ yy_lookahead(lem, p, i) = a.sp
           /\ yy_action(lem, p, i) = lem.errAction

\* The SHIFT actions of the states the tables are emitted for.
EmittedShifts ==
  {a \in UNION {Range(lem.sorted[n].ap) : n \in 1..lem.nxstate} :
     a.typ = SHIFT}

\* The chain of the encoding above minShiftReduce, and the range of the
\* Shift codes.
EncodingChain ==
  /\ lem.errAction = lem.minShiftReduce + lem.nrule
  /\ lem.accAction = lem.errAction + 1
  /\ lem.noAction = lem.accAction + 1
  /\ lem.minReduce = lem.noAction + 1
  /\ lem.maxAction = lem.minReduce + lem.nrule
  /\ \A a \in EmittedShifts :
        /\ compute_action(lem, a) = StateOf(lem, a.stp).statenum
        /\ compute_action(lem, a) \in 0..(lem.minShiftReduce - 1)

\* C8 as stated: the encoding of the emitted tables is anchored at the
\* effective state count, minShiftReduce = nxstate, with errAction,
\* accAction, noAction, minReduce and maxAction chained above it and the
\* Shift codes, the target state numbers, in 0..minShiftReduce-1.
C8_AnchoredAtNxstate ==
  pc = "done" => lem.minShiftReduce = lem.nxstate /\ EncodingChain

\* C8 amended: the encoding is anchored at the total state count,
\* minShiftReduce = nstate >= nxstate, with the same chain above it and
\* the Shift codes, the target state numbers, in 0..minShiftReduce-1.
C8_AnchoredAtNstate ==
  pc = "done" =>
    /\ lem.minShiftReduce = lem.nstate
    /\ lem.nxstate <= lem.nstate
    /\ EncodingChain

\* C8 witness: tables emitted for fewer states than the automaton has,
\* with a Shift among their actions.
C8_Witness ==
  /\ pc = "done"
  /\ 0 < lem.nxstate /\ lem.nxstate < lem.nstate
  /\ EmittedShifts # {}

(***************************************************************************)
(* The symbol table, its sort and the index assignment of main.  A name is *)
(* the sequence of its code points; a Go string holds its UTF-8 encoding,  *)
(* so name[0] is the first byte of the encoding of the first code point.   *)
(* The code points are those below 256.  The table is the sequence of the  *)
(* symbols [name, typ, index] in the order of x2a_keys.                    *)
(***************************************************************************)
\* unicode.IsUpper and unicode.IsLetter on the code points below 256.
IsUpper(r) == r \in (65..90) \cup (192..214) \cup (216..222)

IsLetter(r) ==
  \/ IsUpper(r)
  \/ r \in (97..122) \cup {170, 181, 186} \cup (223..246) \cup (248..255)

islower(r) == IsLetter(r) /\ ~IsUpper(r)

firstRuneIsUpper(x) == x # << >> /\ IsUpper(x[1])

\* x[0] of the Go string x: the first byte of its UTF-8 encoding.
FirstByte(x) == IF x[1] < 128 THEN x[1] ELSE 192 + (x[1] \div 64)

EndName == <<36>>
DefaultName == <<123, 100, 101, 102, 97, 117, 108, 116, 125>>

Symbol_find(tab, x) == {k \in 1..Len(tab) : tab[k].name = x}

Symbol_new(tab, x) ==
  IF Symbol_find(tab, x) # {} THEN tab
  ELSE Append(tab, [name |-> x,
                    typ |-> IF firstRuneIsUpper(x) THEN TERMINAL
                            ELSE NONTERMINAL,
                    index |-> 0])

RECURSIVE Symbol_newAll(_, _)
\* Symbol_new of each name of the sequence xs in turn.
Symbol_newAll(tab, xs) ==
  IF xs = << >> THEN tab
  ELSE Symbol_newAll(Symbol_new(tab, Head(xs)), Tail(xs))

SymbolClass(a) ==
  IF a.typ = MULTITERMINAL THEN 3
  ELSE IF a.name # << >> /\ FirstByte(a.name) > 90 THEN 2
  ELSE 1

Symbolcmpp(a, b) ==
  IF SymbolClass(a) = SymbolClass(b) THEN a.index - b.index
  ELSE SymbolClass(a) - SymbolClass(b)

\* lem.symbols[k].index = k for every k (the table is 1-based here).
IndexSymbols(tab) == [k \in 1..Len(tab) |-> [tab[k] EXCEPT !.index = k - 1]]

RECURSIVE SkipMultiterminals(_, _)
\* The loop "for lem.symbols[i-1].typ == MULTITERMINAL { i-- }".
SkipMultiterminals(tab, i) ==
  IF tab[i].typ = MULTITERMINAL THEN SkipMultiterminals(tab, i - 1) ELSE i

RECURSIVE CountTerminals(_, _)
\* The loop "for i = 1; firstRuneIsUpper(lem.symbols[i].name); i++".
CountTerminals(tab, i) ==
  IF firstRuneIsUpper(tab[i + 1].name) THEN CountTerminals(tab, i + 1) ELSE i

\* The symbol sort of main on the table tab: the sorted and indexed
\* symbols, nsymbol and nterminal; failed when the assertion on {default}
\* stops the program.
SortAndIndex(tab) ==
  LET t1 == IndexSymbols(Symbol_new(tab, DefaultName))
      t2 == IndexSymbols(SortSeq(t1, LAMBDA a, b : Symbolcmpp(a, b) < 0))
      i == SkipMultiterminals(t2, Len(t2))
  IN [symbols |-> t2, nsymbol |-> i - 1,
      nterminal |-> CountTerminals(t2, 1),
      failed |-> t2[i].name # DefaultName]

(***************************************************************************)
(* The symbols of a grammar file: Parse makes a symbol when it meets a     *)
(* name in a %token declaration, in a rule or in a %token_class            *)
(* declaration.  Names have one letter: B, Z, a, z and the letters E and e *)
(* with an acute accent (code points 201 and 233).                         *)
(***************************************************************************)
MaxRhs == 2
MaxParsedRules == 2

Names == {<<66>>, <<90>>, <<97>>, <<122>>, <<201>>, <<233>>}

RhsChoices == UNION {[1..n -> Names] : n \in 0..MaxRhs}

SymbolsInit ==
  /\ lem = [symbols |-> Symbol_new(<< >>, EndName), nrule |-> 0,
            nsymbol |-> 0, nterminal |-> 0]
  /\ pc = "parse"
  /\ rs = Idle /\ call = {}
  /\ p = Idle /\ rows = Idle /\ tabPanic = FALSE

\* %token X.
ParseToken ==
  /\ pc = "parse"
  /\ \E x \in Names :
        /\ IsUpper(x[1])
        /\ lem' = [lem EXCEPT !.symbols = Symbol_new(@, x)]
  /\ UNCHANGED <<pc, rs, call, actVars>>

\* lhs ::= rhs.
ParseRule ==
  /\ pc = "parse"
  /\ lem.nrule < MaxParsedRules
  /\ \E lhs \in Names : \E rhs \in RhsChoices :
        /\ islower(lhs[1])
        /\ \A i \in 1..Len(rhs) : IsLetter(rhs[i][1])
        /\ lem' = [lem EXCEPT
                     !.symbols = Symbol_newAll(Symbol_new(@, lhs), rhs),
                     !.nrule = @ + 1]
  /\ UNCHANGED <<pc, rs, call, actVars>>

\* %token_class x Y.
ParseTokenClass ==
  /\ pc = "parse"
  /\ \E x \in Names : \E y \in Names :
        /\ islower(x[1]) /\ Symbol_find(lem.symbols, x) = {}
        /\ IsUpper(y[1])
        /\ LET t1 == Symbol_new(lem.symbols, x)
               t2 == [t1 EXCEPT ![Len(t1)].typ = MULTITERMINAL]
           IN lem' = [lem EXCEPT !.symbols = Symbol_new(t2, y)]
  /\ UNCHANGED <<pc, rs, call, actVars>>

\* The end of Parse with a rule and without an error, then the symbol sort
\* and the index assignment.
SortSymbols ==
  /\ pc = "parse"
  /\ lem.nrule > 0
  /\ LET r == SortAndIndex(lem.symbols)
     IN /\ lem' = [lem EXCEPT !.symbols = r.symbols, !.nsymbol = r.nsymbol,
                              !.nterminal = r.nterminal]
        /\ pc' = IF r.failed THEN "exit" ELSE "sorted"
  /\ UNCHANGED <<rs, call, actVars>>

SymbolsNext == ParseToken \/ ParseRule \/ ParseTokenClass \/ SortSymbols

SpecSymbols == SymbolsInit /\ [][SymbolsNext]_vars

\* The positions of the table whose symbol satisfies Is.
Positions(Is(_)) == {k \in 1..Len(lem.symbols) : Is(lem.symbols[k])}

IndexOf(K) == {lem.symbols[k].index : k \in K}

IsTerminal(a) == a.typ = TERMINAL \/ a.name = EndName

IsNonterminal(a) ==
  a.typ = NONTERMINAL /\ a.name # EndName /\ a.name # DefaultName

IsDefault(a) == a.name = DefaultName

IsMultiterminal(a) == a.typ = MULTITERMINAL

\* C9: after the symbol sort and the index assignment the symbols of
\* index 0..nterminal-1 are exactly the terminals, index 0 being the
\* end-of-input symbol "$"; those of index nterminal..nsymbol-1 are
\* exactly the nonterminals; {default} has index nsymbol; every
\* multiterminal has a larger index; so nterminal is the position of the
\* first nonterminal.
C9_SymbolOrder ==
  pc = "sorted" =>
    /\ \A k \in 1..Len(lem.symbols) : lem.symbols[k].index = k - 1
    /\ lem.symbols[1].name = EndName
    /\ IndexOf(Positions(IsTerminal)) = 0..(lem.nterminal - 1)
    /\ IndexOf(Positions(IsNonterminal)) = lem.nterminal..(lem.nsymbol - 1)
    /\ IndexOf(Positions(IsDefault)) = {lem.nsymbol}
    /\ \A i \in IndexOf(Positions(IsMultiterminal)) : i > lem.nsymbol

(***************************************************************************)
(* FindFirstSets, pass by pass, on the grammars with the symbols $ 0,      *)
(* T 1 and U 2 (tokens), a 3 and b 4 (nonterminals), {default} 5 and tc 6  *)
(* (the multiterminal of "%token_class tc U.") and up to MaxLambdaRules    *)
(* rules of up to MaxRhs symbols among T, a, b and tc.  The left-hand side *)
(* of a rule is any name that begins with a lower-case letter: a, b or tc. *)
(* rs holds [lambda, progress, panic, fs]; call holds the flags before and *)
(* after the last pass of the lambda loop.                                 *)
(***************************************************************************)
MaxLambdaRules == 3

LambdaLhs == {3, 4, 6}
LambdaRhs == UNION {[1..n -> {1, 3, 4, 6}] : n \in 0..MaxRhs}

LambdaGrammar(rules) ==
  [symbols |-> [s \in 0..6 |->
       IF s \in {1, 2} THEN Sym(TERMINAL, <<-1, UNK>>)
       ELSE IF s = 6
       THEN [Sym(MULTITERMINAL, <<-1, UNK>>) EXCEPT !.subsym = <<2>>]
       ELSE Sym(NONTERMINAL, <<-1, UNK>>)],
   rule |-> [r \in 0..(Len(rules) - 1) |->
       Rule(r, rules[r + 1][1], rules[r + 1][2], NoSym, TRUE)],
   order |-> [k \in 1..Len(rules) |-> k - 1],
   nsymbol |-> 5, nterminal |-> 3, nrule |-> Len(rules), start |-> NoSym,
   wildcard |-> NoSym, errsym |-> NoSym]

LambdaInit ==
  /\ \E n \in 1..MaxLambdaRules : \E rules \in [1..n -> LambdaLhs \X LambdaRhs] :
        lem = LambdaGrammar(rules)
  /\ rs = [lambda |-> LambdaStart(lem).lambda, progress |-> FALSE,
           panic |-> FALSE, fs |-> FirstStart(lem).fs]
  /\ call = {}
  /\ pc = "lambda"
  /\ p = Idle /\ rows = Idle /\ tabPanic = FALSE

\* One pass of the loop "for" of the lambda phase over the rule list.
LambdaPassStep ==
  /\ pc = "lambda"
  /\ rs' = LambdaPass(lem, [rs EXCEPT !.progress = FALSE], lem.order)
  /\ call' = {[before |-> rs.lambda, after |-> rs'.lambda]}
  /\ pc' = IF rs'.panic THEN "panic"
           ELSE IF rs'.progress THEN "lambda" ELSE "first"
  /\ UNCHANGED <<lem, actVars>>

\* One pass of the loop "for" of the first-set phase over the rule list.
FirstPassStep ==
  /\ pc = "first"
  /\ LET w == FirstPass(lem, rs.lambda, [fs |-> rs.fs, panic |-> FALSE],
                        lem.order)
     IN /\ rs' = [rs EXCEPT !.fs = w.fs, !.panic = w.panic,
                            !.progress = (w.fs # rs.fs)]
        /\ pc' = IF w.panic THEN "nilmap"
                 ELSE IF w.fs # rs.fs THEN "first" ELSE "firstdone"
  /\ UNCHANGED <<lem, call, actVars>>

LambdaNext == LambdaPassStep \/ FirstPassStep

SpecLambda == LambdaInit /\ [][LambdaNext]_vars

\* The lambda loop has ended without a panic.
LambdaDone == pc \in {"first", "firstdone", "nilmap"}

\* The loop taken pass by pass ends where the loop taken whole ends.
LambdaLoopAgrees ==
  /\ (LambdaDone \/ pc = "panic") =>
       LET st == LambdaLoop(lem, LambdaStart(lem))
       IN st.lambda = rs.lambda /\ st.panic = (pc = "panic")
  /\ pc \in {"firstdone", "nilmap"} =>
       LET w == FirstLoop(lem, rs.lambda, FirstStart(lem))
       IN w.fs = rs.fs /\ w.panic = (pc = "nilmap")

\* Some rule of A has a right-hand side of lambda nonterminals only.
HasLambdaRule(A) ==
  \E r \in DOMAIN lem.rule :
     /\ lem.rule[r].lhs = A
     /\ \A i \in 1..Len(lem.rule[r].rhs) :
           /\ lem.symbols[lem.rule[r].rhs[i]].typ = NONTERMINAL
           /\ rs.lambda[lem.rule[r].rhs[i]]

\* C10: after the lambda phase of FindFirstSets a nonterminal A is lambda
\* if and only if some rule with left-hand side A has a right-hand side of
\* lambda nonterminals only (the empty one included); no terminal or
\* multiterminal is ever lambda; and the loop halts after the first full
\* pass over the rules in which no flag changed.
C10_Lambda ==
  /\ LambdaDone =>
        \A A \in DOMAIN lem.symbols :
           lem.symbols[A].typ = NONTERMINAL =>
              (rs.lambda[A] <=> HasLambdaRule(A))
  /\ \A s \in DOMAIN lem.symbols :
        rs.lambda[s] => lem.symbols[s].typ = NONTERMINAL
  /\ \A c \in call : (c.before = c.after) <=> LambdaDone

(***************************************************************************)
(* Derivations.  X is nullable when it derives the empty string; Y is a    *)
(* left corner of X when a rule of X has Y after a nullable prefix; the    *)
(* symbols that can begin a string derived from A are those reached from   *)
(* A through left corners.                                                 *)
(***************************************************************************)
RECURSIVE Nullable(_)
\* The least set N of symbols with a rule whose right-hand side is in N.
Nullable(N) ==
  LET N1 == N \cup {lem.rule[r].lhs : r \in
                {r \in DOMAIN lem.rule : Range(lem.rule[r].rhs) \subseteq N}}
  IN IF N1 = N THEN N ELSE Nullable(N1)

LeftCorners(X) ==
  {lem.rule[r].rhs[i] : <<r, i>> \in
     {ri \in (DOMAIN lem.rule) \X (1..MaxRhs) :
        /\ lem.rule[ri[1]].lhs = X
        /\ ri[2] <= Len(lem.rule[ri[1]].rhs)
        /\ \A j \in 1..(ri[2] - 1) :
              lem.rule[ri[1]].rhs[j] \in Nullable({})}}

RECURSIVE Begins(_)
\* The least set of symbols that holds S and the left corners of its
\* members.
Begins(S) ==
  LET S1 == S \cup UNION {LeftCorners(X) : X \in S}
  IN IF S1 = S THEN S ELSE Begins(S1)

\* The terminals that can begin a string derived from A, a multiterminal
\* standing for each of its constituents.
DerivedFirst(A) ==
  LET B == Begins({A})
  IN {t \in B : lem.symbols[t].typ = TERMINAL}
     \cup UNION {Range(lem.symbols[m].subsym) :
                   m \in {m \in B : lem.symbols[m].typ = MULTITERMINAL}}

\* C11: after FindFirstSets the first set of every nonterminal A holds
\* exactly the indices of the terminals that can begin a string derived
\* from A.
C11_FirstSets ==
  pc = "firstdone" =>
    \A A \in DOMAIN lem.symbols :
       (lem.symbols[A].typ = NONTERMINAL /\ HasFirstset(lem, A)) =>
          rs.fs[A] = DerivedFirst(A)

(***************************************************************************)
(* The generator run on grammar files written out in full.  A grammar of   *)
(* nterminal - 1 tokens and nsymbol - nterminal nonterminals without       *)
(* code: precs gives each token its <<precedence, associativity>>, rules   *)
(* the <<lhs, rhs>> of each rule in file order.                            *)
(***************************************************************************)
Grammar(nterminal, nsymbol, precs, rules, start, errsym) ==
  [symbols |-> [s \in 0..nsymbol |->
       IF 1 <= s /\ s < nterminal THEN Sym(TERMINAL, precs[s])
       ELSE Sym(NONTERMINAL, <<-1, UNK>>)],
   rule |-> [r \in 0..(Len(rules) - 1) |->
       Rule(r, rules[r + 1][1], rules[r + 1][2], NoSym, TRUE)],
   order |-> [k \in 1..Len(rules) |-> k - 1],
   nsymbol |-> nsymbol, nterminal |-> nterminal, nrule |-> Len(rules),
   start |-> start, wildcard |-> NoSym, errsym |-> errsym]

NoPrec == <<-1, UNK>>

\* stmt ::= IF expr stmt.  stmt ::= IF expr stmt ELSE stmt.
\* The symbols sort to $ 0, IF 1, ELSE 2, stmt 3, expr 4, {default} 5.
DanglingElse ==
  Grammar(3, 5, <<NoPrec, NoPrec>>,
          <<<<3, <<1, 4, 3>>>>, <<3, <<1, 4, 3, 2, 3>>>>>>, 3, NoSym)

\* %left, %right or %nonassoc ELSE.  and the rules of DanglingElse.
\* The symbols sort to $ 0, ELSE 1, IF 2, stmt 3, expr 4, {default} 5.
DanglingElseDecl(assoc) ==
  Grammar(3, 5, <<<<1, assoc>>, NoPrec>>,
          <<<<3, <<2, 4, 3>>>>, <<3, <<2, 4, 3, 1, 3>>>>>>, 3, NoSym)

\* %left, %right or %nonassoc IF ELSE.  and the rules of DanglingElse.
\* The symbols sort to $ 0, IF 1, ELSE 2, stmt 3, expr 4, {default} 5.
DanglingElseBoth(assoc) ==
  Grammar(3, 5, <<<<1, assoc>>, <<1, assoc>>>>,
          <<<<3, <<1, 4, 3>>>>, <<3, <<1, 4, 3, 2, 3>>>>>>, 3, NoSym)

\* a ::= B.  a ::= C.  b ::= D.
\* The symbols sort to $ 0, B 1, C 2, D 3, a 4, b 5, {default} 6.
Unreferenced ==
  Grammar(4, 6, <<NoPrec, NoPrec, NoPrec>>,
          <<<<4, <<1>>>>, <<4, <<2>>>>, <<5, <<3>>>>>>, 4, NoSym)

\* s ::= s X.  s ::= Y.
\* The symbols sort to $ 0, X 1, Y 2, s 3, {default} 4.
StartOnRhs ==
  Grammar(3, 4, <<NoPrec, NoPrec>>,
          <<<<3, <<3, 1>>>>, <<3, <<2>>>>>>, 3, NoSym)

\* s ::= X t.  t ::= s Y.  t ::= Z.
\* The symbols sort to $ 0, X 1, Y 2, Z 3, s 4, t 5, {default} 6.
StartInside ==
  Grammar(4, 6, <<NoPrec, NoPrec, NoPrec>>,
          <<<<4, <<1, 5>>>>, <<5, <<4, 2>>>>, <<5, <<3>>>>>>, 4, NoSym)

\* all ::= A B.  all ::= error B.
\* The symbols sort to $ 0, A 1, B 2, all 3, error 4, {default} 5.
ErrorRule ==
  Grammar(3, 5, <<NoPrec, NoPrec>>,
          <<<<3, <<1, 2>>>>, <<3, <<4, 2>>>>>>, 3, 4)

\* s ::= a.  s ::= b.  a ::= X.  b ::= X.
\* The symbols sort to $ 0, X 1, a 2, b 3, s 4, {default} 5.
ReduceReduce ==
  Grammar(2, 5, <<NoPrec>>,
          <<<<4, <<2>>>>, <<4, <<3>>>>, <<2, <<1>>>>, <<3, <<1>>>>>>, 4, NoSym)

\* s ::= A.
OneRule == Grammar(2, 3, <<NoPrec>>, <<<<2, <<1>>>>>>, 2, NoSym)

\* s ::= e X.  e ::= t.  e ::= e Y t.  t ::= Z.
\* The symbols sort to $ 0, X 1, Y 2, Z 3, e 4, s 5, t 6, {default} 7.
UnitRule ==
  Grammar(4, 7, <<NoPrec, NoPrec, NoPrec>>,
          <<<<5, <<4, 1>>>>, <<4, <<6>>>>, <<4, <<4, 2, 6>>>>, <<6, <<3>>>>>>,
          5, NoSym)

CaseGrammars ==
  {DanglingElse, Unreferenced, StartOnRhs, StartInside, ErrorRule, OneRule,
   ReduceReduce, UnitRule}
  \cup {DanglingElseDecl(a) : a \in {LEFT, RIGHT, NONE}}
  \cup {DanglingElseBoth(a) : a \in {LEFT, RIGHT, NONE}}

CasesInit ==
  /\ \E G \in CaseGrammars : \E compress \in BOOLEAN : \E noResort \in BOOLEAN :
        lem = Lemon(G, compress, noResort)
  /\ pc = "parsed"
  /\ p = Idle /\ rows = Idle /\ tabPanic = FALSE
  /\ rs = Idle /\ call = {}

SpecCases == CasesInit /\ [][GenNext]_vars

\* The run is on the grammar G.
RunOf(G) ==
  /\ DOMAIN lem.rule = DOMAIN G.rule
  /\ lem.nterminal = G.nterminal /\ lem.nsymbol = G.nsymbol
  /\ \A r \in DOMAIN G.rule :
        lem.rule[r].lhs = G.rule[r].lhs /\ lem.rule[r].rhs = G.rule[r].rhs
  /\ \A t \in 1..(G.nterminal - 1) :
        /\ lem.symbols[t].prec = G.symbols[t].prec
        /\ lem.symbols[t].assoc = G.symbols[t].assoc

\* C12: a non-zero error count never stops the run: on a grammar whose
\* only problems are non-fatal (the start symbol on a right-hand side, a
\* nonterminal without rules, a rule that cannot be reduced, conflicts)
\* every stage after Parse runs to completion, without an abort or a
\* failed assertion.
C12_NeverStops == pc # "exit" /\ ~lem.failed /\ ~tabPanic

(***************************************************************************)
(* The grammar-file parser: parseonetoken, the state machine that Parse    *)
(* feeds with one token at a time.  A token is the sequence of its code    *)
(* points.  The parser state ps holds the fields of pstate and of the      *)
(* symbols that a transition tests: the symbol table, the names that have  *)
(* a precedence, a datatype or a fallback, and whether the grammar has a   *)
(* wildcard.  Texts that are only stored (code, aliases, declaration       *)
(* arguments) are kept as the flag that they are set.                      *)
(***************************************************************************)
\* enum e_state
INITIALIZE == "INITIALIZE"
WAITING_FOR_DECL_OR_RULE == "WAITING_FOR_DECL_OR_RULE"
WAITING_FOR_DECL_KEYWORD == "WAITING_FOR_DECL_KEYWORD"
WAITING_FOR_DECL_ARG == "WAITING_FOR_DECL_ARG"
WAITING_FOR_PRECEDENCE_SYMBOL == "WAITING_FOR_PRECEDENCE_SYMBOL"
WAITING_FOR_ARROW == "WAITING_FOR_ARROW"
IN_RHS == "IN_RHS"
LHS_ALIAS_1 == "LHS_ALIAS_1"
LHS_ALIAS_2 == "LHS_ALIAS_2"
LHS_ALIAS_3 == "LHS_ALIAS_3"
RHS_ALIAS_1 == "RHS_ALIAS_1"
RHS_ALIAS_2 == "RHS_ALIAS_2"
PRECEDENCE_MARK_1 == "PRECEDENCE_MARK_1"
PRECEDENCE_MARK_2 == "PRECEDENCE_MARK_2"
RESYNC_AFTER_RULE_ERROR == "RESYNC_AFTER_RULE_ERROR"
RESYNC_AFTER_DECL_ERROR == "RESYNC_AFTER_DECL_ERROR"
WAITING_FOR_DESTRUCTOR_SYMBOL == "WAITING_FOR_DESTRUCTOR_SYMBOL"
WAITING_FOR_DATATYPE_SYMBOL == "WAITING_FOR_DATATYPE_SYMBOL"
WAITING_FOR_FALLBACK_ID == "WAITING_FOR_FALLBACK_ID"
WAITING_FOR_WILDCARD_ID == "WAITING_FOR_WILDCARD_ID"
WAITING_FOR_CLASS_ID == "WAITING_FOR_CLASS_ID"
WAITING_FOR_CLASS_TOKEN == "WAITING_FOR_CLASS_TOKEN"
WAITING_FOR_TOKEN_NAME == "WAITING_FOR_TOKEN_NAME"

MAXRHS == 1000

\* The keywords of the declarations that take one argument.
SlotKeywords ==
  {<<110, 97, 109, 101>>,
   <<105, 110, 99, 108, 117, 100, 101>>,
   <<99, 111, 100, 101>>,
   <<116, 111, 107, 101, 110, 95, 100, 101, 115, 116, 114, 117, 99, 116, 111, 114>>,
   <<100, 101, 102, 97, 117, 108, 116, 95, 100, 101, 115, 116, 114, 117, 99, 116, 111, 114>>,
   <<116, 111, 107, 101, 110, 95, 112, 114, 101, 102, 105, 120>>,
   <<115, 121, 110, 116, 97, 120, 95, 101, 114, 114, 111, 114>>,
   <<112, 97, 114, 115, 101, 95, 97, 99, 99, 101, 112, 116>>,
   <<112, 97, 114, 115, 101, 95, 102, 97, 105, 108, 117, 114, 101>>,
   <<115, 116, 97, 99, 107, 95, 111, 118, 101, 114, 102, 108, 111, 119>>,
   <<101, 120, 116, 114, 97, 95, 97, 114, 103, 117, 109, 101, 110, 116>>,
   <<101, 120, 116, 114, 97, 95, 99, 111, 110, 116, 101, 120, 116>>,
   <<116, 111, 107, 101, 110, 95, 116, 121, 112, 101>>,
   <<100, 101, 102, 97, 117, 108, 116, 95, 116, 121, 112, 101>>,
   <<115, 116, 97, 99, 107, 95, 115, 105, 122, 101>>,
   <<115, 116, 97, 114, 116, 95, 115, 121, 109, 98, 111, 108>>}
\* name include code token_destructor default_destructor token_prefix syntax_error parse_accept
\* parse_failure stack_overflow extra_argument extra_context token_type default_type stack_size start_symbol
KwLeft == <<108, 101, 102, 116>>  \* left
KwRight == <<114, 105, 103, 104, 116>>  \* right
KwNonassoc == <<110, 111, 110, 97, 115, 115, 111, 99>>  \* nonassoc
KwDestructor == <<100, 101, 115, 116, 114, 117, 99, 116, 111, 114>>  \* destructor
KwType == <<116, 121, 112, 101>>  \* type
KwFallback == <<102, 97, 108, 108, 98, 97, 99, 107>>  \* fallback
KwToken == <<116, 111, 107, 101, 110>>  \* token
KwWildcard == <<119, 105, 108, 100, 99, 97, 114, 100>>  \* wildcard
KwTokenClass == <<116, 111, 107, 101, 110, 95, 99, 108, 97, 115, 115>>  \* token_class
NeverReduce == <<123, 78, 69, 86, 69, 82, 45, 82, 69, 68, 85, 67, 69>>  \* {NEVER-REDUCE

\* unicode.IsNumber on the code points below 256, and isalnum.
IsNumber(r) == r \in (48..57) \cup {178, 179, 185} \cup (188..190)

isalnum(r) == IsLetter(r) \/ IsNumber(r)

\* x1 of parseonetoken: the second code point of the token, 0 if none.
X1(x) == IF Len(x) > 1 THEN x[2] ELSE 0

\* ErrorMsg, errorcnt++ and the next state.
ParseError(ps, st) == [ps EXCEPT !.errorcnt = @ + 1, !.state = st]

\* A freshly parsed rule as prevrule sees it.
NewRule == [code |-> FALSE, precsym |-> FALSE, neverReduce |-> FALSE]

\* An element of psp.rhs: a symbol of the table, or the MULTITERMINAL
\* made of it by "|"; head is the name of subsym[0] of a made one.
RhsSymbol(tab, x) ==
  [name |-> x,
   multi |-> \E k \in Symbol_find(tab, x) : tab[k].typ = MULTITERMINAL,
   head |-> << >>]

Waiting_for_decl_or_rule(ps, x) ==
  IF x[1] = 37 THEN [ps EXCEPT !.state = WAITING_FOR_DECL_KEYWORD]
  ELSE IF islower(x[1])
  THEN [ps EXCEPT !.tab = Symbol_new(@, x), !.rhs = << >>,
                  !.state = WAITING_FOR_ARROW]
  ELSE IF x[1] = 123
  THEN IF ps.prevrule = << >> THEN [ps EXCEPT !.errorcnt = @ + 1]
       ELSE IF ps.prevrule[1].code THEN [ps EXCEPT !.errorcnt = @ + 1]
       ELSE IF x = NeverReduce
       THEN [ps EXCEPT !.prevrule[1].neverReduce = TRUE]
       ELSE [ps EXCEPT !.prevrule[1].code = (Len(x) > 1)]
  ELSE IF x[1] = 91 THEN [ps EXCEPT !.state = PRECEDENCE_MARK_1]
  ELSE [ps EXCEPT !.errorcnt = @ + 1]

Precedence_mark_1(ps, x) ==
  LET q == IF ~IsUpper(x[1]) THEN [ps EXCEPT !.errorcnt = @ + 1]
           ELSE IF ps.prevrule = << >> THEN [ps EXCEPT !.errorcnt = @ + 1]
           ELSE IF ps.prevrule[1].precsym
           THEN [ps EXCEPT !.errorcnt = @ + 1]
           ELSE [ps EXCEPT !.prevrule[1].precsym = TRUE,
                           !.tab = Symbol_new(@, x)]
  IN  [q EXCEPT !.state = PRECEDENCE_MARK_2]

Precedence_mark_2(ps, x) ==
  [ps EXCEPT !.errorcnt = IF x[1] # 93 THEN @ + 1 ELSE @,
             !.state = WAITING_FOR_DECL_OR_RULE]

Waiting_for_arrow(ps, x) ==
  IF Len(x) > 2 /\ x[1] = 58 /\ x[2] = 58 /\ x[3] = 61
  THEN [ps EXCEPT !.state = IN_RHS]
  ELSE IF x[1] = 40 THEN [ps EXCEPT !.state = LHS_ALIAS_1]
  ELSE ParseError(ps, RESYNC_AFTER_RULE_ERROR)

Lhs_alias_1(ps, x) ==
  IF IsLetter(x[1]) THEN [ps EXCEPT !.state = LHS_ALIAS_2]
  ELSE ParseError(ps, RESYNC_AFTER_RULE_ERROR)

Lhs_alias_2(ps, x) ==
  IF x[1] = 41 THEN [ps EXCEPT !.state = LHS_ALIAS_3]
  ELSE ParseError(ps, RESYNC_AFTER_RULE_ERROR)

Lhs_alias_3(ps, x) ==
  IF Len(x) > 2 /\ x[1] = 58 /\ x[2] = 58 /\ x[3] = 61
  THEN [ps EXCEPT !.state = IN_RHS]
  ELSE ParseError(ps, RESYNC_AFTER_RULE_ERROR)

In_rhs(ps, x) ==
  IF x[1] = 46
  THEN [ps EXCEPT !.nrule = @ + 1, !.prevrule = <<NewRule>>,
                  !.state = WAITING_FOR_DECL_OR_RULE]
  ELSE IF IsLetter(x[1])
  THEN IF Len(ps.rhs) >= MAXRHS
       THEN ParseError(ps, RESYNC_AFTER_RULE_ERROR)
       ELSE LET tab == Symbol_new(ps.tab, x)
            IN  [ps EXCEPT !.tab = tab,
                           !.rhs = Append(@, RhsSymbol(tab, x))]
  ELSE IF x[1] \in {124, 47} /\ Len(ps.rhs) > 0 /\ IsUpper(X1(x))
  THEN LET n == Len(ps.rhs)
           msp == IF ps.rhs[n].multi THEN ps.rhs[n]
                  ELSE [ps.rhs[n] EXCEPT !.multi = TRUE,
                                         !.head = ps.rhs[n].name]
           bad == \/ islower(X1(x))
                  \/ msp.head # << >> /\ islower(msp.head[1])
       IN  [ps EXCEPT !.rhs[n] = msp,
                      !.tab = Symbol_new(@, Tail(x)),
                      !.errorcnt = IF bad THEN @ + 1 ELSE @]
  ELSE IF x[1] = 40 /\ Len(ps.rhs) > 0
  THEN [ps EXCEPT !.state = RHS_ALIAS_1]
  ELSE ParseError(ps, RESYNC_AFTER_RULE_ERROR)

Rhs_alias_1(ps, x) ==
  IF IsLetter(x[1]) THEN [ps EXCEPT !.state = RHS_ALIAS_2]
  ELSE ParseError(ps, RESYNC_AFTER_RULE_ERROR)

Rhs_alias_2(ps, x) ==
  IF x[1] = 41 THEN [ps EXCEPT !.state = IN_RHS]
  ELSE ParseError(ps, RESYNC_AFTER_RULE_ERROR)

Waiting_for_decl_keyword(ps, x) ==
  IF IsLetter(x[1])
  THEN IF x \in SlotKeywords
       THEN [ps EXCEPT !.slot = [kind |-> "gp", sym |-> << >>],
                       !.state = WAITING_FOR_DECL_ARG]
       ELSE IF x \in {KwLeft, KwRight, KwNonassoc}
       THEN [ps EXCEPT !.state = WAITING_FOR_PRECEDENCE_SYMBOL]
       ELSE IF x = KwDestructor
       THEN [ps EXCEPT !.state = WAITING_FOR_DESTRUCTOR_SYMBOL]
       ELSE IF x = KwType
       THEN [ps EXCEPT !.state = WAITING_FOR_DATATYPE_SYMBOL]
       ELSE IF x = KwFallback
       THEN [ps EXCEPT !.fallback = << >>,
                       !.state = WAITING_FOR_FALLBACK_ID]
       ELSE IF x = KwToken
       THEN [ps EXCEPT !.state = WAITING_FOR_TOKEN_NAME]
       ELSE IF x = KwWildcard
       THEN [ps EXCEPT !.state = WAITING_FOR_WILDCARD_ID]
       ELSE IF x = KwTokenClass
       THEN [ps EXCEPT !.state = WAITING_FOR_CLASS_ID]
       ELSE ParseError(ps, RESYNC_AFTER_DECL_ERROR)
  ELSE ParseError(ps, RESYNC_AFTER_DECL_ERROR)

Waiting_for_destructor_symbol(ps, x) ==
  IF ~IsLetter(x[1]) THEN ParseError(ps, RESYNC_AFTER_DECL_ERROR)
  ELSE [ps EXCEPT !.tab = Symbol_new(@, x),
                  !.slot = [kind |-> "destructor", sym |-> x],
                  !.state = WAITING_FOR_DECL_ARG]

Waiting_for_datatype_symbol(ps, x) ==
  IF ~IsLetter(x[1]) THEN ParseError(ps, RESYNC_AFTER_DECL_ERROR)
  ELSE IF Symbol_find(ps.tab, x) # {} /\ x \in ps.datatype
  THEN ParseError(ps, RESYNC_AFTER_DECL_ERROR)
  ELSE [ps EXCEPT !.tab = Symbol_new(@, x),
                  !.slot = [kind |-> "datatype", sym |-> x],
                  !.state = WAITING_FOR_DECL_ARG]

Waiting_for_precedence_symbol(ps, x) ==
  IF x[1] = 46 THEN [ps EXCEPT !.state = WAITING_FOR_DECL_OR_RULE]
  ELSE IF IsUpper(x[1])
  THEN IF x \in ps.prec
       THEN [ps EXCEPT !.tab = Symbol_new(@, x), !.errorcnt = @ + 1]
       ELSE [ps EXCEPT !.tab = Symbol_new(@, x), !.prec = @ \cup {x}]
  ELSE [ps EXCEPT !.errorcnt = @ + 1]

Waiting_for_decl_arg(ps, x) ==
  IF x[1] \in {123, 34} \/ isalnum(x[1])
  THEN LET zNew == IF x[1] \in {123, 34} THEN Tail(x) ELSE x
       IN  [ps EXCEPT !.datatype = IF ps.slot.kind = "datatype"
                                      /\ zNew # << >>
                                   THEN @ \cup {ps.slot.sym} ELSE @,
                      !.state = WAITING_FOR_DECL_OR_RULE]
  ELSE ParseError(ps, RESYNC_AFTER_DECL_ERROR)

Waiting_for_fallback_id(ps, x) ==
  IF x[1] = 46 THEN [ps EXCEPT !.state = WAITING_FOR_DECL_OR_RULE]
  ELSE IF ~IsUpper(x[1]) THEN [ps EXCEPT !.errorcnt = @ + 1]
  ELSE LET q == [ps EXCEPT !.tab = Symbol_new(@, x)]
       IN  IF ps.fallback = << >> THEN [q EXCEPT !.fallback = <<x>>]
           ELSE IF x \in ps.hasfb THEN [q EXCEPT !.errorcnt = @ + 1]
           ELSE [q EXCEPT !.hasfb = @ \cup {x}]

Waiting_for_token_name(ps, x) ==
  IF x[1] = 46 THEN [ps EXCEPT !.state = WAITING_FOR_DECL_OR_RULE]
  ELSE IF ~IsUpper(x[1]) THEN [ps EXCEPT !.errorcnt = @ + 1]
  ELSE [ps EXCEPT !.tab = Symbol_new(@, x)]

Waiting_for_wildcard_id(ps, x) ==
  IF x[1] = 46 THEN [ps EXCEPT !.state = WAITING_FOR_DECL_OR_RULE]
  ELSE IF ~IsUpper(x[1]) THEN [ps EXCEPT !.errorcnt = @ + 1]
  ELSE IF ~ps.wildcard
  THEN [ps EXCEPT !.tab = Symbol_new(@, x), !.wildcard = TRUE]
  ELSE [ps EXCEPT !.tab = Symbol_new(@, x), !.errorcnt = @ + 1]

Waiting_for_class_id(ps, x) ==
  IF ~islower(x[1]) THEN ParseError(ps, RESYNC_AFTER_DECL_ERROR)
  ELSE IF Symbol_find(ps.tab, x) # {}
  THEN ParseError(ps, RESYNC_AFTER_DECL_ERROR)
  ELSE LET tab == Symbol_new(ps.tab, x)
       IN  [ps EXCEPT !.tab = [tab EXCEPT ![Len(tab)].typ = MULTITERMINAL],
                      !.state = WAITING_FOR_CLASS_TOKEN]

Waiting_for_class_token(ps, x) ==
  IF x[1] = 46 THEN [ps EXCEPT !.state = WAITING_FOR_DECL_OR_RULE]
  ELSE IF IsUpper(x[1]) \/ (x[1] \in {124, 47} /\ IsUpper(X1(x)))
  THEN [ps EXCEPT !.tab = Symbol_new(@, IF IsUpper(x[1]) THEN x
                                        ELSE Tail(x))]
  ELSE ParseError(ps, RESYNC_AFTER_DECL_ERROR)

\* case RESYNC_AFTER_RULE_ERROR has an empty body and a switch case of Go
\* does not fall through: no token changes the state.
Resync_after_rule_error(ps, x) == ps

Resync_after_decl_error(ps, x) ==
  IF x[1] = 46 THEN [ps EXCEPT !.state = WAITING_FOR_DECL_OR_RULE]
  ELSE IF x[1] = 37 THEN [ps EXCEPT !.state = WAITING_FOR_DECL_KEYWORD]
  ELSE ps

parseonetoken(ps, x) ==
  CASE ps.state = INITIALIZE ->
         Waiting_for_decl_or_rule(
            [ps EXCEPT !.prevrule = << >>, !.nrule = 0], x)
    [] ps.state = WAITING_FOR_DECL_OR_RULE -> Waiting_for_decl_or_rule(ps, x)
    [] ps.state = PRECEDENCE_MARK_1 -> Precedence_mark_1(ps, x)
    [] ps.state = PRECEDENCE_MARK_2 -> Precedence_mark_2(ps, x)
    [] ps.state = WAITING_FOR_ARROW -> Waiting_for_arrow(ps, x)
    [] ps.state = LHS_ALIAS_1 -> Lhs_alias_1(ps, x)
    [] ps.state = LHS_ALIAS_2 -> Lhs_alias_2(ps, x)
    [] ps.state = LHS_ALIAS_3 -> Lhs_alias_3(ps, x)
    [] ps.state = IN_RHS -> In_rhs(ps, x)
    [] ps.state = RHS_ALIAS_1 -> Rhs_alias_1(ps, x)
    [] ps.state = RHS_ALIAS_2 -> Rhs_alias_2(ps, x)
    [] ps.state = WAITING_FOR_DECL_KEYWORD -> Waiting_for_decl_keyword(ps, x)
    [] ps.state = WAITING_FOR_DESTRUCTOR_SYMBOL ->
         Waiting_for_destructor_symbol(ps, x)
    [] ps.state = WAITING_FOR_DATATYPE_SYMBOL ->
         Waiting_for_datatype_symbol(ps, x)
    [] ps.state = WAITING_FOR_PRECEDENCE_SYMBOL ->
         Waiting_for_precedence_symbol(ps, x)
    [] ps.state = WAITING_FOR_DECL_ARG -> Waiting_for_decl_arg(ps, x)
    [] ps.state = WAITING_FOR_FALLBACK_ID -> Waiting_for_fallback_id(ps, x)
    [] ps.state = WAITING_FOR_TOKEN_NAME -> Waiting_for_token_name(ps, x)
    [] ps.state = WAITING_FOR_WILDCARD_ID -> Waiting_for_wildcard_id(ps, x)
    [] ps.state = WAITING_FOR_CLASS_ID -> Waiting_for_class_id(ps, x)
    [] ps.state = WAITING_FOR_CLASS_TOKEN -> Waiting_for_class_token(ps, x)
    [] ps.state = RESYNC_AFTER_RULE_ERROR -> Resync_after_rule_error(ps, x)
    [] ps.state = RESYNC_AFTER_DECL_ERROR -> Resync_after_decl_error(ps, x)

(***************************************************************************)
(* Parse and the test of main that follows it.  The tokens of the input    *)
(* are drawn one at a time from ParseTokens, at most MaxTokens of them;    *)
(* rs is the pstate, lem the fields of the lemon structure that main       *)
(* tests after Parse, and lem.status the exit status of the process (-1    *)
(* while it runs).  call holds the last token and the state it met.        *)
(***************************************************************************)
MaxTokens == 5

Dot == <<46>>
Percent == <<37>>
Arrow == <<58, 58, 61>>
LParen == <<40>>
RParen == <<41>>
LBracket == <<91>>
RBracket == <<93>>
CodeToken == <<123, 99>>     \* {c
LowerName == <<97>>          \* a
UpperName == <<66>>          \* B
BarName == <<124, 66>>       \* |B
KwName == <<110, 97, 109, 101>>

ParseTokens ==
  {Dot, Percent, Arrow, LParen, RParen, LBracket, RBracket, CodeToken,
   NeverReduce, LowerName, UpperName, BarName, KwName, KwLeft, KwType,
   KwDestructor, KwFallback, KwToken, KwWildcard, KwTokenClass}

\* The pstate that Parse sets up, after main's Symbol_new("$").
ParseStart ==
  [state |-> INITIALIZE, errorcnt |-> 0, nrule |-> 0, prevrule |-> << >>,
   rhs |-> << >>, tab |-> Symbol_new(<< >>, EndName), prec |-> {},
   datatype |-> {}, fallback |-> << >>, hasfb |-> {}, wildcard |-> FALSE,
   slot |-> [kind |-> "nil", sym |-> << >>], ntok |-> 0]

ParseInit ==
  /\ rs = ParseStart
  /\ \E pp \in BOOLEAN :
        lem = [errorcnt |-> 0, nrule |-> 0, printPreprocessed |-> pp,
               status |-> -1]
  /\ call = {}
  /\ pc = "parse"
  /\ p = Idle /\ rows = Idle /\ tabPanic = FALSE

\* One turn of the loop of Parse: the next token goes to parseonetoken.
ParseStep ==
  /\ pc = "parse" /\ ~lem.printPreprocessed
  /\ rs.ntok < MaxTokens
  /\ \E x \in ParseTokens :
        /\ rs' = [parseonetoken(rs, x) EXCEPT !.ntok = @ + 1]
        /\ call' = {[tok |-> x, from |-> rs.state]}
  /\ UNCHANGED <<lem, pc, actVars>>

\* os.Exit(code): the status of the process is the low byte of code.
ExitStatus(code) == code % 256

\* The end of the input: Parse returns and main tests its outcome.
ParseEnd ==
  /\ pc = "parse"
  /\ LET errorcnt == rs.errorcnt
         nrule == IF rs.state = INITIALIZE THEN lem.nrule ELSE rs.nrule
         status == IF lem.printPreprocessed \/ errorcnt > 0
                   THEN ExitStatus(errorcnt)
                   ELSE IF nrule = 0 THEN ExitStatus(1) ELSE -1
     IN /\ lem' = [lem EXCEPT !.errorcnt = errorcnt, !.nrule = nrule,
                              !.status = status]
        /\ pc' = IF status = -1 THEN "parsed" ELSE "exit"
  /\ UNCHANGED <<rs, call, actVars>>

ParseNext == ParseStep \/ ParseEnd

SpecParse == ParseInit /\ [][ParseNext]_vars

ResyncStates == {RESYNC_AFTER_RULE_ERROR, RESYNC_AFTER_DECL_ERROR}

\* C13: parsing continues after an error: a "." that arrives in an
\* error-resynchronisation state returns the parser to the state that
\* accepts a new declaration or rule, and a "%" to the declaration-keyword
\* state, so that what follows a malformed rule or declaration is still
\* processed and counted.
C13_ResyncRecovers ==
  \A c \in call :
     c.from \in ResyncStates =>
        /\ c.tok = Dot => rs.state = WAITING_FOR_DECL_OR_RULE
        /\ c.tok = Percent => rs.state = WAITING_FOR_DECL_KEYWORD

\* C14: the exit status is 0 when the run ends without errors and without
\* unresolved conflicts, and exactly 1 whenever the error count is not
\* zero, however many errors there are.
C14_ExitStatus ==
  pc = "exit" =>
     /\ lem.errorcnt > 0 => lem.status = 1
     /\ lem.status = 0 => lem.errorcnt = 0

\* Some state of the run holds a REDUCE action by the rule r.
Retained(r) ==
  \E n \in 1..Len(lem.sorted) : \E k \in 1..Len(lem.sorted[n].ap) :
     lem.sorted[n].ap[k].typ = REDUCE /\ lem.sorted[n].ap[k].rp = r

\* C15: after FindActions the canReduce flag of a rule is true if and only
\* if some state retains a REDUCE action by that rule, and every rule that
\* no state reduces by adds exactly one to the error count; for the grammar
\* a ::= B. a ::= C. b ::= D. the only such rule is the rule of b, the
\* error count is 1 and the exit status is not zero.
C15_CanReduce ==
  /\ AfterFindActions =>
        /\ \A r \in DOMAIN lem.rule : r \in lem.canReduce <=> Retained(r)
        /\ \A c \in call :
              lem.errorcnt =
                 c.errorcnt
                 + Cardinality({r \in DOMAIN lem.rule : ~Retained(r)})
        /\ RunOf(Unreferenced) =>
              /\ lem.errorcnt = 1
              /\ \A r \in DOMAIN lem.rule :
                    r \notin lem.canReduce <=> lem.rule[r].lhs = 5
  /\ (pc = "end" /\ RunOf(Unreferenced)) => lem.status # 0

C15_Witness ==
  /\ AfterFindActions /\ RunOf(Unreferenced)
  /\ call # {}
  /\ \E r \in DOMAIN lem.rule : r \notin lem.canReduce

\* The actions of the run on the lookahead sp whose kind is typ, as
\* pairs <<state, position>>.
ActionsOn(sp, typ) ==
  UNION {{<<n, k>> : k \in {j \in 1..Len(lem.sorted[n].ap) :
                                /\ lem.sorted[n].ap[j].sp = sp
                                /\ lem.sorted[n].ap[j].typ = typ}} :
         n \in 1..Len(lem.sorted)}

\* In one state the SHIFT on the token else stands and the REDUCE by
\* stmt ::= IF expr stmt on else has become an action of kind typ.
ShiftOnElseWins(else, typ) ==
  \E s \in ActionsOn(else, SHIFT) : \E r \in ActionsOn(else, typ) :
     /\ s[1] = r[1]
     /\ Len(lem.rule[lem.sorted[r[1]].ap[r[2]].rp].rhs) = 3
     /\ ActionsOn(else, typ) = {r}
     /\ \A q \in ActionsOn(else, REDUCE) : q[1] # s[1]

\* The dangling-else grammar without declarations: one conflict, the SHIFT
\* on ELSE stands and the REDUCE is the SRCONFLICT.
DanglingElseUndeclared ==
  RunOf(DanglingElse) => lem.nconflict = 1 /\ ShiftOnElseWins(2, SRCONFLICT)

\* C16 as amended: for the dangling-else grammar without precedence
\* declarations exactly one shift/reduce conflict is counted and the SHIFT
\* on ELSE survives, the REDUCE being marked as the conflict; with the
\* single declaration %right ELSE. the rule stmt ::= IF expr stmt has no
\* precedence symbol and the same conflict is counted; with %right IF
\* ELSE. no conflict is counted and the SHIFT on ELSE wins by precedence.
C16_DanglingElse ==
  AfterFindActions =>
    /\ DanglingElseUndeclared
    /\ RunOf(DanglingElseDecl(RIGHT)) =>
          lem.nconflict = 1 /\ ShiftOnElseWins(1, SRCONFLICT)
    /\ RunOf(DanglingElseBoth(RIGHT)) =>
          lem.nconflict = 0 /\ ShiftOnElseWins(2, RD_RESOLVED)

\* C16 as stated: without declarations one conflict resolved in favour of
\* the SHIFT, and with the single declaration %right ELSE. no conflict.
C16_RightElseNoConflict ==
  AfterFindActions =>
    /\ DanglingElseUndeclared
    /\ RunOf(DanglingElseDecl(RIGHT)) => lem.nconflict = 0

C16_Witness ==
  /\ AfterFindActions /\ RunOf(DanglingElseBoth(RIGHT))
  /\ ShiftOnElseWins(2, RD_RESOLVED)

(***************************************************************************)
(* The preprocessor: preprocess_input and eval_preprocessor_boolean.  A    *)
(* text is the sequence of its code points and i, j, k are the 0-based     *)
(* indices of the code; defs is the set of the names defined with -D.      *)
(***************************************************************************)
\* unicode.IsSpace on the code points below 256.
IsSpace(r) == r \in (9..13) \cup {32, 133, 160}

\* The slice z[a:b].
Slice(z, a, b) == SubSeq(z, a + 1, b)

\* len(z) >= i+len(s) && string(z[i:i+len(s)]) == s
HasPrefixAt(z, i, s) == Len(z) >= i + Len(s) /\ Slice(z, i, i + Len(s)) = s

RECURSIVE ParenScan(_, _, _)
\* The scan for the ")" that closes a "(": from index k with n parentheses
\* open, the index of the closing one, or "nul" at a zero code point, or
\* "none" at the end of z.
ParenScan(z, k, n) ==
  IF k >= Len(z) THEN [kind |-> "none", k |-> k]
  ELSE IF z[k + 1] = 41
  THEN IF n = 1 THEN [kind |-> "close", k |-> k]
       ELSE ParenScan(z, k + 1, n - 1)
  ELSE IF z[k + 1] = 40 THEN ParenScan(z, k + 1, n + 1)
  ELSE IF z[k + 1] = 0 THEN [kind |-> "nul", k |-> k]
  ELSE ParenScan(z, k + 1, n)

\* The end of the name that begins at index i.
NameEnd(z, i) ==
  LET stops == {k \in (i + 1)..(Len(z) - 1) :
                  ~(isalnum(z[k + 1]) \/ z[k + 1] = 95)}
  IN IF stops = {} THEN Len(z) ELSE Min(stops)

\* if neg { res = !res }
Negated(neg, res) == IF neg THEN (IF res # 0 THEN 0 ELSE 1) ELSE res

\* The value that stands for the jump to pp_syntax_error: the label reads
\* the i of the function, which the i of the loop shadows and which stays
\* 0, so that a nested call returns -(0 + 1).
PPSyntaxError == -1

RECURSIVE EvalLoop(_, _, _, _, _, _)
\* The loop of eval_preprocessor_boolean from index i on.
EvalLoop(defs, z, i, neg, res, okTerm) ==
  IF i >= Len(z) THEN res
  ELSE LET zi == z[i + 1]
           zi1 == IF i + 1 < Len(z) THEN z[i + 2] ELSE 0
       IN
  IF IsSpace(zi) THEN EvalLoop(defs, z, i + 1, neg, res, okTerm)
  ELSE IF zi = 33
  THEN IF ~okTerm THEN PPSyntaxError
       ELSE EvalLoop(defs, z, i + 1, ~neg, res, okTerm)
  ELSE IF zi = 124 /\ zi1 = 124
  THEN IF okTerm THEN PPSyntaxError
       ELSE IF res # 0 THEN 1
       ELSE EvalLoop(defs, z, i + 2, neg, res, TRUE)
  ELSE IF zi = 38 /\ zi1 = 38
  THEN IF okTerm THEN PPSyntaxError
       ELSE IF res = 0 THEN 0
       ELSE EvalLoop(defs, z, i + 2, neg, res, TRUE)
  ELSE IF zi = 40
  THEN IF ~okTerm THEN PPSyntaxError
       ELSE LET sc == ParenScan(z, i + 1, 1)
                inner == IF sc.kind = "close"
                         THEN EvalLoop(defs, Slice(z, i + 1, sc.k), 0,
                                       FALSE, 0, TRUE)
                         ELSE res
            IN IF sc.kind = "nul" \/ inner < 0 THEN PPSyntaxError
               ELSE EvalLoop(defs, z,
                             (IF sc.kind = "close" THEN sc.k ELSE i) + 1,
                             FALSE, Negated(neg, inner), FALSE)
  ELSE IF IsLetter(zi)
  THEN IF ~okTerm THEN PPSyntaxError
       ELSE LET k == NameEnd(z, i)
                r == IF Slice(z, i, k) \in defs THEN 1 ELSE 0
            IN EvalLoop(defs, z, k, FALSE, Negated(neg, r), FALSE)
  ELSE PPSyntaxError

\* eval_preprocessor_boolean: 0 or 1, or PPSyntaxError where the code
\* exits (lineno > 0) or returns a negative number (lineno <= 0).
eval_preprocessor_boolean(defs, z) == EvalLoop(defs, z, 0, FALSE, 0, TRUE)

\* The index of the end of the line that holds index i: the index of its
\* newline, or len(z).
LineEnd(z, i) ==
  LET nl == {j \in i..(Len(z) - 1) : z[j + 1] = 10}
  IN IF nl = {} THEN Len(z) ELSE Min(nl)

\* BlankRegion that overwrites the newlines too.
BlankRegion_Newlines(z, a, b) ==
  [q \in 1..Len(z) |-> IF a < q /\ q <= b THEN 32 ELSE z[q]]

\* for j = a; j < b; j++ { if z[j] != '\n' { z[j] = ' ' } }
BlankRegion(z, a, b) ==
  [q \in 1..Len(z) |-> IF a < q /\ q <= b /\ z[q] # 10 THEN 32 ELSE z[q]]

\* for j = i; j < len(z) && z[j] != '\n'; j++ { z[j] = ' ' }
BlankLine(z, i) == BlankRegion(z, i, LineEnd(z, i))

PctEndif == <<37, 101, 110, 100, 105, 102>>   \* %endif
PctElse == <<37, 101, 108, 115, 101>>     \* %else
PctIfdef == <<37, 105, 102, 100, 101, 102, 32>>   \* "%ifdef "
PctIf == <<37, 105, 102, 32>>         \* "%if "
PctIfndef == <<37, 105, 102, 110, 100, 101, 102, 32>> \* "%ifndef "

\* The first index from i on that holds a space, or len(z).
WordEnd(z, i) ==
  LET sp == {j \in i..(Len(z) - 1) : IsSpace(z[j + 1])}
  IN IF sp = {} THEN Len(z) ELSE Min(sp)

\* The branch of preprocess_input for %endif at index i.
PreEndif(st, i) ==
  LET z1 == IF st.exclude = 1 THEN BlankRegion(st.z, st.start, i) ELSE st.z
  IN [st EXCEPT !.z = BlankLine(z1, i),
                !.exclude = IF @ # 0 THEN @ - 1 ELSE 0]

\* The branch for %else at index i.
PreElse(st, i) ==
  IF st.exclude = 1
  THEN [st EXCEPT !.z = BlankLine(BlankRegion(st.z, st.start, i), i),
                  !.exclude = 0]
  ELSE IF st.exclude = 0
  THEN [st EXCEPT !.z = BlankLine(st.z, i), !.exclude = 1, !.start = i]
  ELSE [st EXCEPT !.z = BlankLine(st.z, i)]

\* The branch for %ifdef, %if and %ifndef at index i.  The loop that blanks
\* the line runs while j <= len(z) and reads z[len(z)] when the line has
\* no newline.
PreIf(defs, st, i) ==
  LET z == st.z
      iBool == WordEnd(z, i)
      isNot == iBool = i + 7
      res == eval_preprocessor_boolean(defs,
                                       Slice(z, iBool, LineEnd(z, iBool)))
      exclude == IF isNot THEN res ELSE IF res = 0 THEN 1 ELSE 0
      st1 == IF st.exclude # 0 THEN [st EXCEPT !.exclude = @ + 1]
             ELSE IF res = PPSyntaxError THEN [st EXCEPT !.out = "exit"]
             ELSE [st EXCEPT !.exclude = exclude,
                             !.start = IF exclude # 0 THEN i ELSE @]
  IN IF st1.out # "run" THEN st1
     ELSE [st1 EXCEPT !.z = BlankLine(z, i),
                      !.out = IF LineEnd(z, i) = Len(z) THEN "panic"
                              ELSE @]

RECURSIVE PreLoop(_, _, _)
\* The loop of preprocess_input from index i on; st.out is "run" until
\* the process exits or panics.
PreLoop(defs, st, i) ==
  IF i >= Len(st.z) \/ st.out # "run" THEN st
  ELSE LET z == st.z IN
  IF z[i + 1] # 37 \/ (i > 0 /\ z[i] # 10) THEN PreLoop(defs, st, i + 1)
  ELSE IF HasPrefixAt(z, i, PctEndif)
          /\ (Len(z) = i + 6 \/ IsSpace(z[i + 7]))
  THEN PreLoop(defs, PreEndif(st, i), i + 1)
  ELSE IF Len(z) >= i + 6 /\ Slice(z, i, i + 5) = PctElse /\ IsSpace(z[i + 6])
  THEN PreLoop(defs, PreElse(st, i), i + 1)
  ELSE IF \/ HasPrefixAt(z, i, PctIfdef)
          \/ HasPrefixAt(z, i, PctIf)
          \/ HasPrefixAt(z, i, PctIfndef)
  THEN PreLoop(defs, PreIf(defs, st, i), i + 1)
  ELSE PreLoop(defs, st, i + 1)

\* preprocess_input: the text it leaves and how it ends, "ok", or "exit"
\* for os.Exit(1), or "panic" for an index out of range.
preprocess_input(defs, z) ==
  LET st == PreLoop(defs, [z |-> z, exclude |-> 0, start |-> 0,
                           out |-> "run"], 0)
  IN [z |-> st.z,
      out |-> IF st.out # "run" THEN st.out
              ELSE IF st.exclude # 0 THEN "exit" ELSE "ok"]

(***************************************************************************)
(* The preprocessor run.  The input is made of at most MaxLines lines      *)
(* drawn from PPLines, joined by newlines, with or without a newline       *)
(* after the last; rs holds the lines, the input text, the text that       *)
(* preprocess_input leaves and how it ended.  A line is [text, kind, bad,  *)
(* holds]: holds is the set of the define sets under which the condition   *)
(* of an "if" line is true, and bad says that it is not an expression.     *)
(***************************************************************************)
MaxLines == 4

NameA == <<65>>
NameB == <<66>>

DefineSets == SUBSET {NameA, NameB}

PPLine(text, kind, holds) ==
  [text |-> text, kind |-> kind, bad |-> FALSE, holds |-> holds]

PPLines ==
  {PPLine(<<37, 105, 102, 100, 101, 102, 32, 65>>, "if", {d \in DefineSets : NameA \in d}),
      \* %ifdef A
   PPLine(<<37, 105, 102, 110, 100, 101, 102, 32, 65>>, "if", {d \in DefineSets : NameA \notin d}),
      \* %ifndef A
   PPLine(<<37, 105, 102, 32, 33, 65, 32, 124, 124, 32, 40, 66, 41>>, "if",
          {d \in DefineSets : NameA \notin d \/ NameB \in d}),
      \* %if !A || (B)
   PPLine(<<37, 105, 102, 110, 100, 101, 102, 32, 33, 65, 32, 124, 124, 32, 66>>, "if",
          {d \in DefineSets : NameA \in d /\ NameB \notin d}),
      \* %ifndef !A || B
   [text |-> <<37, 105, 102, 32, 65, 32, 41>>, kind |-> "if", bad |-> TRUE, holds |-> {}],
      \* %if A )
   PPLine(<<37, 101, 108, 115, 101>>, "else", {}),    \* %else
   PPLine(<<37, 101, 110, 100, 105, 102>>, "endif", {}),   \* %endif
   PPLine(<<120, 32, 37, 121>>, "text", {})}    \* x %y

RECURSIVE JoinLines(_, _)
\* The text of the lines, a newline after each but, unless nl, the last.
JoinLines(lines, nl) ==
  IF lines = << >> THEN << >>
  ELSE Head(lines).text
       \o (IF Len(lines) > 1 \/ nl THEN <<10>> ELSE << >>)
       \o JoinLines(Tail(lines), nl)

PreInit ==
  /\ \E n \in 0..MaxLines : \E lines \in [1..n -> PPLines] :
     \E nl \in BOOLEAN : \E defs \in DefineSets :
        rs = [lines |-> lines, nl |-> nl, defs |-> defs,
              input |-> JoinLines(lines, nl),
              z |-> JoinLines(lines, nl), out |-> "run"]
  /\ lem = Idle
  /\ call = {}
  /\ pc = "pre"
  /\ p = Idle /\ rows = Idle /\ tabPanic = FALSE

\* Parse calls preprocess_input on the text of the file.
RunPreprocess ==
  /\ pc = "pre"
  /\ LET w == preprocess_input(rs.defs, rs.z)
     IN rs' = [rs EXCEPT !.z = w.z, !.out = w.out]
  /\ pc' = "predone"
  /\ UNCHANGED <<lem, call, actVars>>

PreNext == RunPreprocess

SpecPreprocess == PreInit /\ [][PreNext]_vars

\* The meaning of the directives, line by line: a stack of the open
\* conditionals, each [parent, cond, else], parent saying that the text
\* around the conditional is included.  The result gives, for every line,
\* whether it is left as it is (an included line of text), and says whether
\* every conditional is closed (closed), whether every %else belongs to an
\* open conditional that has no %else yet (paired), and whether every
\* condition is an expression (formed).
Included(stack) ==
  stack = << >> \/ LET f == stack[Len(stack)]
                   IN f.parent /\ (f.cond # f.else)

RECURSIVE Directives(_, _, _, _)
Directives(defs, lines, stack, acc) ==
  IF lines = << >> THEN [acc EXCEPT !.closed = (stack = << >>)]
  ELSE LET l == Head(lines)
           n == Len(stack)
       IN
  IF l.kind = "if"
  THEN Directives(defs, Tail(lines),
                  Append(stack, [parent |-> Included(stack),
                                 cond |-> defs \in l.holds,
                                 else |-> FALSE]),
                  [acc EXCEPT !.keep = Append(@, FALSE),
                              !.formed = @ /\ ~l.bad])
  ELSE IF l.kind = "else"
  THEN IF n = 0 \/ stack[n].else
       THEN Directives(defs, Tail(lines), stack,
                       [acc EXCEPT !.keep = Append(@, FALSE),
                                   !.paired = FALSE])
       ELSE Directives(defs, Tail(lines),
                       [stack EXCEPT ![n].else = TRUE],
                       [acc EXCEPT !.keep = Append(@, FALSE)])
  ELSE IF l.kind = "endif"
  THEN Directives(defs, Tail(lines),
                  IF n = 0 THEN stack ELSE SubSeq(stack, 1, n - 1),
                  [acc EXCEPT !.keep = Append(@, FALSE)])
  ELSE Directives(defs, Tail(lines), stack,
                  [acc EXCEPT !.keep = Append(@, Included(stack))])

Meaning ==
  Directives(rs.defs, rs.lines, << >>,
             [keep |-> << >>, closed |-> TRUE, paired |-> TRUE,
              formed |-> TRUE])

\* The input with every line that is not kept turned into spaces.
Expected ==
  LET keep == Meaning.keep
      blank(l) == [l EXCEPT !.text = [q \in 1..Len(l.text) |-> 32]]
  IN JoinLines([k \in 1..Len(rs.lines) |->
                  IF keep[k] THEN rs.lines[k] ELSE blank(rs.lines[k])],
               rs.nl)

\* The text left has the length of the input and its newlines where the
\* input has them, and differs from it only by spaces.
SameShape ==
  /\ Len(rs.z) = Len(rs.input)
  /\ \A q \in 1..Len(rs.z) :
        /\ rs.z[q] = 10 <=> rs.input[q] = 10
        /\ rs.z[q] # rs.input[q] => rs.z[q] = 32

OutOfRange == -1

yyStackEntry(stateno, major) == [stateno |-> stateno, major |-> major]

ParseAlloc ==
  [stack |-> <<yyStackEntry(0, 0)>>, yyerrcnt |-> -1,
   nSyntaxError |-> 0, nAccept |-> 0, nFailure |-> 0, bad |-> FALSE]

\* The action for the lookahead token in the state on top of the stack.
yy_find_shift_action(T, iLookAhead, stateno) ==
  IF stateno > T.YY_MAX_SHIFT THEN stateno
  ELSE IF stateno \notin DOMAIN T.yy_shift_ofst THEN OutOfRange
  ELSE LET i == T.yy_shift_ofst[stateno] + iLookAhead
       IN IF i \notin DOMAIN T.yy_lookahead THEN OutOfRange
          ELSE IF T.yy_lookahead[i] # iLookAhead THEN T.yy_default[stateno]
          ELSE IF i \notin DOMAIN T.yy_action THEN OutOfRange
          ELSE T.yy_action[i]

\* The action for a nonterminal (or the error symbol) in a state.
yy_find_reduce_action(T, stateno, iLookAhead) ==
  IF stateno \notin DOMAIN T.yy_default THEN OutOfRange
  ELSE IF stateno > T.YY_REDUCE_COUNT THEN T.yy_default[stateno]
  ELSE LET i == T.yy_reduce_ofst[stateno] + iLookAhead
       IN IF i < 0 \/ i >= T.YY_ACTTAB_COUNT THEN T.yy_default[stateno]
          ELSE IF T.yy_lookahead[i] # iLookAhead THEN T.yy_default[stateno]
          ELSE T.yy_action[i]

yy_shift(T, P, yyNewState, yyMajor) ==
  LET s == IF yyNewState > T.YY_MAX_SHIFT
           THEN yyNewState + T.YY_MIN_REDUCE - T.YY_MIN_SHIFTREDUCE
           ELSE yyNewState
  IN [P EXCEPT !.stack = Append(@, yyStackEntry(s, yyMajor))]

\* The reduce by rule yyruleno: [P, yyact], yyact the action found for the
\* left-hand side in the state uncovered.
yy_reduce(T, P, yyruleno) ==
  LET yygoto == T.yyRuleInfoLhs[yyruleno]
      base == Len(P.stack) + T.yyRuleInfoNRhs[yyruleno]
  IN IF base < 1 THEN [P |-> [P EXCEPT !.bad = TRUE], yyact |-> OutOfRange]
     ELSE LET yyact == yy_find_reduce_action(T, P.stack[base].stateno, yygoto)
          IN [P |-> [P EXCEPT !.stack = Append(SubSeq(P.stack, 1, base),
                                               yyStackEntry(yyact, yygoto))],
              yyact |-> yyact]

yy_syntax_error(P) == [P EXCEPT !.nSyntaxError = @ + 1]

yy_parse_failed(P) ==
  [P EXCEPT !.stack = <<P.stack[1]>>, !.nFailure = @ + 1]

yy_accept(P) ==
  [P EXCEPT !.stack = <<P.stack[1]>>, !.yyerrcnt = -1, !.nAccept = @ + 1]

RECURSIVE PopToErrorShift(_, _)
\* The stack popped down to the topmost state that can shift the error
\* symbol, the bottom state included; << >> when no state can.
PopToErrorShift(T, stack) ==
  IF stack = << >> THEN << >>
  ELSE IF yy_find_reduce_action(T, stack[Len(stack)].stateno,
                                T.YYERRORSYMBOL) > T.YY_MAX_SHIFTREDUCE
  THEN PopToErrorShift(T, SubSeq(stack, 1, Len(stack) - 1))
  ELSE stack

RECURSIVE ParseLoop(_, _, _, _, _)
\* The loop of Parse on the token yymajor from the action yyact; yyerrorhit
\* is set once the call has hit an error.
ParseLoop(T, P, yymajor, yyact0, yyerrorhit) ==
  LET yyact == yy_find_shift_action(T, yymajor, yyact0)
  IN IF yyact = OutOfRange THEN [P EXCEPT !.bad = TRUE]
     ELSE IF yyact >= T.YY_MIN_REDUCE
     THEN LET r == yy_reduce(T, P, yyact - T.YY_MIN_REDUCE)
          IN IF r.yyact = OutOfRange THEN [r.P EXCEPT !.bad = TRUE]
             ELSE ParseLoop(T, r.P, yymajor, r.yyact, yyerrorhit)
     ELSE IF yyact <= T.YY_MAX_SHIFTREDUCE
     THEN [yy_shift(T, P, yyact, yymajor) EXCEPT !.yyerrcnt = @ - 1]
     ELSE IF yyact = T.YY_ACCEPT_ACTION
     THEN yy_accept([P EXCEPT !.stack = SubSeq(@, 1, Len(@) - 1)])
     ELSE IF yyact # T.YY_ERROR_ACTION THEN [P EXCEPT !.bad = TRUE]
     ELSE IF T.YYERRORSYMBOL > 0
     THEN LET P1 == IF P.yyerrcnt < 0 THEN yy_syntax_error(P) ELSE P
              yymx == P1.stack[Len(P1.stack)].major
          IN IF yymx = T.YYERRORSYMBOL \/ yyerrorhit
             THEN [P1 EXCEPT !.yyerrcnt = 3]
             ELSE LET stack == PopToErrorShift(T, P1.stack)
                  IN IF stack = << >> \/ yymajor = 0
                     THEN [yy_parse_failed(P1) EXCEPT !.yyerrcnt = 3]
                     ELSE LET top == stack[Len(stack)].stateno
                              ea == yy_find_reduce_action(T, top,
                                                          T.YYERRORSYMBOL)
                              P2 == yy_shift(T, [P1 EXCEPT !.stack = stack],
                                             ea, T.YYERRORSYMBOL)
                          IN IF ea = OutOfRange THEN [P1 EXCEPT !.bad = TRUE]
                             ELSE ParseLoop(T, [P2 EXCEPT !.yyerrcnt = 3],
                                            yymajor,
                                            P2.stack[Len(P2.stack)].stateno,
                                            TRUE)
     ELSE LET P1 == IF P.yyerrcnt <= 0 THEN yy_syntax_error(P) ELSE P
          IN IF yymajor = 0
             THEN [yy_parse_failed(P1) EXCEPT !.yyerrcnt = -1]
             ELSE [P1 EXCEPT !.yyerrcnt = 3]

\* Parse: one token given to the parser; 0 ends the input.
Parse(T, P, yymajor) ==
  IF P.bad THEN P
  ELSE ParseLoop(T, P, yymajor, P.stack[Len(P.stack)].stateno, FALSE)

(***************************************************************************)
(* The generator run twice on one grammar file, with default compression   *)
(* and with -c, and one token string given to a fresh parser of each.  rs  *)
(* holds the grammar G, the tables yy written by the run with compress     *)
(* false and by the run with compress true, a parser for each, and the     *)
(* tokens given so far.                                                    *)
(***************************************************************************)
MaxInput == 6

DriverGrammars ==
  {G \in Grammars :
      /\ \A r \in DOMAIN G.rule : G.rule[r].precsym = NoSym /\ G.rule[r].noCode}
  \cup {ErrorRule, DanglingElse, OneRule}

DriverInit ==
  /\ \E G \in DriverGrammars : \E noResort \in BOOLEAN :
        /\ lem = Lemon(G, FALSE, noResort)
        /\ rs = [G |-> G, yy |-> [c \in BOOLEAN |-> Idle],
                 parser |-> [c \in BOOLEAN |-> ParseAlloc], input |-> << >>]
  /\ pc = "parsed"
  /\ p = Idle /\ rows = Idle /\ tabPanic = FALSE
  /\ call = {}

\* The rest of ReportTable: the tables of the run are written out; the
\* run with -c follows the default one.
WriteTables ==
  /\ pc = "done"
  /\ rs' = [rs EXCEPT !.yy[lem.compress] = EmittedTables(lem, p)]
  /\ IF lem.compress
     THEN /\ pc' = "feed"
          /\ UNCHANGED <<lem, actVars>>
     ELSE /\ pc' = "parsed"
          /\ lem' = Lemon(rs.G, TRUE, lem.noResort)
          /\ p' = Idle
          /\ UNCHANGED <<rows, tabPanic>>
  /\ UNCHANGED call

\* One call of Parse on each parser with the same token.
Feed ==
  /\ pc = "feed"
  /\ Len(rs.input) < MaxInput
  /\ \E t \in 0..(rs.G.nterminal - 1) :
        /\ rs' = [rs EXCEPT
                    !.parser = [c \in BOOLEAN |-> Parse(rs.yy[c], @[c], t)],
                    !.input = Append(@, t)]
        /\ pc' = IF t = 0 THEN "fed" ELSE "feed"
  /\ UNCHANGED <<actVars, lem, call>>

DriverNext ==
  \/ RunFindStates
  \/ RunFindActions
  \/ RunCompressTables
  \/ RunResortStates
  \/ RunReportTable
  \/ WriteTables
  \/ Feed

SpecDriver == DriverInit /\ [][DriverNext]_vars

\* The parser of the run with compress = c took the whole input without
\* an error.
Accepted(c) ==
  /\ ~rs.parser[c].bad
  /\ rs.parser[c].nAccept = 1
  /\ rs.parser[c].nSyntaxError = 0
  /\ rs.parser[c].nFailure = 0

\* C18: compression is sound: on every grammar the tables generated with
\* default compression and the tables generated with -c accept and reject
\* exactly the same token strings.
C18_CompressionSound ==
  pc = "fed" => (Accepted(FALSE) <=> Accepted(TRUE))

\* The counters of the parser of the run with compress = c.
Counts(c) ==
  <<rs.parser[c].nSyntaxError, rs.parser[c].nAccept, rs.parser[c].nFailure>>

TestInputs == {<<1, 2, 0>>, <<2, 2, 0>>, <<1, 1, 0>>}

X3Size == 128

NilNode == -1

EmptyNode == [key |-> << >>, data |-> NoState, next |-> NilNode]

RECURSIVE StatecmpFrom(_, _, _)
StatecmpFrom(a, b, k) ==
  IF k <= Len(a) /\ k <= Len(b)
  THEN LET rc == IF a[k].rp # b[k].rp THEN a[k].rp - b[k].rp
                 ELSE a[k].dot - b[k].dot
       IN IF rc # 0 THEN rc ELSE StatecmpFrom(a, b, k + 1)
  ELSE IF k <= Len(b) THEN -1
  ELSE IF k <= Len(a) THEN 1
  ELSE 0

statecmp(a, b) == StatecmpFrom(a, b, 1)

RECURSIVE StatehashFrom(_, _, _)
StatehashFrom(a, k, h) ==
  IF k > Len(a) THEN h
  ELSE StatehashFrom(a, k + 1, h * 571 + a[k].rp * 37 + a[k].dot)

statehash(a) == StatehashFrom(a, 1, 0)

NewArray(size, count) ==
  [size |-> size, count |-> count,
   tbl |-> [i \in 0..(size - 1) |-> EmptyNode],
   ht |-> [i \in 0..(size - 1) |-> NilNode]]

State_init == NewArray(X3Size, 0)

RECURSIVE ChainFind(_, _, _)
\* The node of the chain from np whose key compares equal to key.
ChainFind(x, np, key) ==
  IF np = NilNode THEN NilNode
  ELSE IF statecmp(x.tbl[np].key, key) = 0 THEN np
  ELSE ChainFind(x, x.tbl[np].next, key)

State_find(x, key) ==
  LET np == ChainFind(x, x.ht[statehash(key) % x.size], key)
  IN IF np = NilNode THEN NoState ELSE x.tbl[np].data

LastOf(S) == IF S = {} THEN NilNode ELSE Max(S)

Rehash_Unchained(x) == NewArray(x.size * 2, x.count)

\* The array twice the size with the nodes of x copied: the loop puts
\* node i at the head of the chain of its hash, so that each chain holds
\* its nodes from the last copied to the first.
Rehash(x) ==
  LET arrSize == x.size * 2
      h(i) == statehash(x.tbl[i].key) % arrSize
  IN [size |-> arrSize, count |-> x.count,
      tbl |-> [i \in 0..(arrSize - 1) |->
                 IF i < x.count
                 THEN [key |-> x.tbl[i].key, data |-> x.tbl[i].data,
                       next |-> LastOf({j \in 0..(i - 1) : h(j) = h(i)})]
                 ELSE EmptyNode],
      ht |-> [k \in 0..(arrSize - 1) |->
                LastOf({i \in 0..(x.count - 1) : h(i) = k})]]

\* State_insert: the array after the call and the value returned.
State_insert(x, data, key) ==
  LET ph == statehash(key)
  IN IF ChainFind(x, x.ht[ph % x.size], key) # NilNode
     THEN [x |-> x, ok |-> FALSE]
     ELSE LET y == IF x.count >= x.size THEN Rehash(x) ELSE x
              h == ph % y.size
          IN [x |-> [y EXCEPT !.tbl[y.count] = [key |-> key, data |-> data,
                                                next |-> y.ht[h]],
                              !.ht[h] = y.count,
                              !.count = @ + 1],
              ok |-> TRUE]

(***************************************************************************)
(* The state build seen from the table: a run of calls of getstate, each   *)
(* with a sorted basis that is new or was given before.  The bases are     *)
(* numbered: one or two of the configurations of the rules 0..MaxBasisRule *)
(* with the dot at 0..MaxBasisDot; a run takes them in steps of rs.stride. *)
(***************************************************************************)
MaxStates == 130
MaxBasisRule == 23
MaxBasisDot == 1

NConfigs == (MaxBasisRule + 1) * (MaxBasisDot + 1)

BasisConfig(i) ==
  [rp |-> i \div (MaxBasisDot + 1), dot |-> i % (MaxBasisDot + 1)]

NBases == 3 * NConfigs

\* The basis numbered k: configuration i alone, or with the one 1 or 2
\* places after it (counted round), in sorted order.
Basis(k) ==
  LET i == k % NConfigs
      j == (i + (k \div NConfigs)) % NConfigs
  IN IF j = i THEN <<BasisConfig(i)>>
     ELSE IF i < j THEN <<BasisConfig(i), BasisConfig(j)>>
     ELSE <<BasisConfig(j), BasisConfig(i)>>

Strides == {1, 7, 11}

BasisAt(n) == Basis((n * rs.stride) % NBases)

StatesInit ==
  /\ \E d \in Strides : rs = [x3a |-> State_init, nstate |-> 0, stride |-> d]
  /\ pc = "states"
  /\ lem = Idle
  /\ p = Idle /\ rows = Idle /\ tabPanic = FALSE
  /\ call = {}

\* getstate on the n-th basis of the run: the state found, or a new state
\* numbered nstate and inserted.  The bases asked for again are the first,
\* the middle and the last of those given so far.
GetState ==
  /\ pc = "states"
  /\ \E n \in {rs.nstate, 0, rs.nstate \div 2, rs.nstate - 1} :
        /\ n >= 0
        /\ n < MaxStates
        /\ LET bp == BasisAt(n)
               stp == State_find(rs.x3a, bp)
           IN IF stp # NoState
              THEN /\ call' = {[bp |-> bp, stp |-> stp, nstate |-> rs.nstate]}
                   /\ UNCHANGED rs
              ELSE /\ call' = {[bp |-> bp, stp |-> rs.nstate,
                                nstate |-> rs.nstate]}
                   /\ rs' = [rs EXCEPT
                               !.x3a = State_insert(@, rs.nstate, bp).x,
                               !.nstate = @ + 1]
  /\ UNCHANGED <<actVars, lem, pc>>

StatesNext == GetState

SpecStates == StatesInit /\ [][StatesNext]_vars

\* The nodes of the table in use.
Nodes == 0..(rs.x3a.count - 1)

\* C20: during the state build and after it no two states of the table
\* have equal sorted bases, every state is found by its basis, and
\* getstate returns the existing state, adding none, whenever the basis it
\* is given equals that of a state in the table; all this also after the
\* hash table has grown.
C20_UniqueBases ==
  LET x == rs.x3a
  IN /\ x.count = rs.nstate
     /\ Cardinality({x.tbl[i].key : i \in Nodes}) = x.count
     /\ \A i \in Nodes : x.tbl[i].data = i /\ State_find(x, x.tbl[i].key) = i
     /\ \A c \in call :
           IF \E i \in 0..(c.nstate - 1) : x.tbl[i].key = c.bp
           THEN /\ rs.nstate = c.nstate
                /\ x.tbl[c.stp].key = c.bp
           ELSE /\ rs.nstate = c.nstate + 1
                /\ c.stp = c.nstate
                /\ x.tbl[c.stp].key = c.bp

C20_Witness ==
  /\ rs.x3a.size = 2 * X3Size
  /\ rs.nstate > X3Size
  /\ \E c \in call : c.nstate = rs.nstate /\ c.stp = 0
  /\ \E i \in Nodes : rs.x3a.tbl[i].next # NilNode

(***************************************************************************)
(* The states FindStates builds: basis and closure.                        *)
(***************************************************************************)
\* The configurations of q are in the strict order of Configcmp.
Ascending(q) ==
  \A i \in 1..Len(q) : \A j \in (i + 1)..Len(q) :
     \/ lem.rule[q[i].rp].index < lem.rule[q[j].rp].index
     \/ /\ lem.rule[q[i].rp].index = lem.rule[q[j].rp].index
        /\ q[i].dot < q[j].dot

IsPrefix(a, q) == Len(a) <= Len(q) /\ SubSeq(q, 1, Len(a)) = a

\* C21 as stated: the basis of every state is non-empty and is the first
\* part of the state's sorted closure list.
C21_BasisPrefix ==
  \A n \in 1..Len(lem.sorted) :
     /\ lem.sorted[n].bp # << >>
     /\ IsPrefix(lem.sorted[n].bp, lem.sorted[n].cfp)

\* C21: the basis of every state is non-empty, every configuration of it
\* is in the closure list of the state, and the basis list and the closure
\* list are each in ascending (rule index, dot) order, so that the basis is
\* the closure list with the configurations the closure added left out.
C21_BasisWithinClosure ==
  \A n \in 1..Len(lem.sorted) :
     /\ lem.sorted[n].bp # << >>
     /\ Range(lem.sorted[n].bp) \subseteq Range(lem.sorted[n].cfp)
     /\ Ascending(lem.sorted[n].bp)
     /\ Ascending(lem.sorted[n].cfp)

C21_Witness ==
  /\ pc = "actions"
  /\ \E n \in 1..Len(lem.sorted) :
        /\ Len(lem.sorted[n].cfp) > Len(lem.sorted[n].bp)
        /\ ~IsPrefix(lem.sorted[n].bp, lem.sorted[n].cfp)

(***************************************************************************)
(* FindFollowSets taken configuration by configuration.  lem.sorted holds  *)
(* the states with their follow sets; rs holds the forward links FindLinks *)
(* left (links), the status of every configuration, the position of the    *)
(* two "for" loops (state i, configuration k), progress, the states as     *)
(* FindStates built them (built) and the number of the pass; call holds    *)
(* the follow sets as they were when the current pass began.               *)
(***************************************************************************)
COMPLETE == 0
INCOMPLETE == 1

\* s ::= a b C.  a ::= .  a ::= A.  b ::= .  b ::= B a.
\* The symbols sort to $ 0, A 1, B 2, C 3, a 4, b 5, s 6, {default} 7.
Optional ==
  Grammar(4, 7, <<NoPrec, NoPrec, NoPrec>>,
          <<<<6, <<4, 5, 3>>>>, <<4, << >>>>, <<4, <<1>>>>, <<5, << >>>>,
            <<5, <<2, 4>>>>>>, 6, NoSym)

FollowGrammars ==
  {ExprGrammar(NoPrec, NoPrec, NoSym, NoSym, TRUE), DanglingElse, Unreferenced,
   StartOnRhs, StartInside, ErrorRule, ReduceReduce, OneRule, Optional}

\* The configuration c of the state at position n of lem.sorted.
ConfigOf(n, c) == [stp |-> n - 1, rp |-> c.rp, dot |-> c.dot]

AllConfigs(sorted) ==
  UNION {{ConfigOf(n, c) : c \in Range(sorted[n].cfp)} : n \in 1..Len(sorted)}

\* cfp.fws of the configuration key.
FwsOf(sorted, key) == sorted[key.stp + 1].fws[[rp |-> key.rp, dot |-> key.dot]]

\* The status buildshifts leaves: COMPLETE on the configurations it shifted.
BuiltStatus(G, sorted) ==
  [key \in AllConfigs(sorted) |->
     IF AfterDot(G, key) = NoSym THEN INCOMPLETE ELSE COMPLETE]

\* The body of the loop over cfp for the configuration key: SetUnion into
\* every configuration on key's fplp, then key is COMPLETE.
FollowVisit_NoProgress(F, links, key) ==
  IF F.status[key] = COMPLETE THEN F
  ELSE LET to == {l[2] : l \in {l \in links : l[1] = key}}
           change == {t \in to : ~(FwsOf(F.sorted, key) \subseteq FwsOf(F.sorted, t))}
       IN [sorted |-> [n \in 1..Len(F.sorted) |->
                  [F.sorted[n] EXCEPT !.fws = [c \in DOMAIN F.sorted[n].fws |->
                     IF ConfigOf(n, c) \in change
                     THEN F.sorted[n].fws[c] \cup FwsOf(F.sorted, key)
                     ELSE F.sorted[n].fws[c]]]],
           status |-> [k \in DOMAIN F.status |->
                  IF k = key THEN COMPLETE
                  ELSE IF k \in change THEN INCOMPLETE ELSE F.status[k]],
           progress |-> F.progress]

FollowVisit_NoRevisit(F, links, key) ==
  IF F.status[key] = COMPLETE THEN F
  ELSE LET to == {l[2] : l \in {l \in links : l[1] = key}}
           change == {t \in to : ~(FwsOf(F.sorted, key) \subseteq FwsOf(F.sorted, t))}
       IN [sorted |-> [n \in 1..Len(F.sorted) |->
                  [F.sorted[n] EXCEPT !.fws = [c \in DOMAIN F.sorted[n].fws |->
                     IF ConfigOf(n, c) \in change
                     THEN F.sorted[n].fws[c] \cup FwsOf(F.sorted, key)
                     ELSE F.sorted[n].fws[c]]]],
           status |-> [k \in DOMAIN F.status |->
                  IF k = key THEN COMPLETE ELSE F.status[k]],
           progress |-> F.progress \/ change # {}]

FollowVisit(F, links, key) ==
  IF F.status[key] = COMPLETE THEN F
  ELSE LET to == {l[2] : l \in {l \in links : l[1] = key}}
           change == {t \in to : ~(FwsOf(F.sorted, key) \subseteq FwsOf(F.sorted, t))}
       IN [sorted |-> [n \in 1..Len(F.sorted) |->
                  [F.sorted[n] EXCEPT !.fws = [c \in DOMAIN F.sorted[n].fws |->
                     IF ConfigOf(n, c) \in change
                     THEN F.sorted[n].fws[c] \cup FwsOf(F.sorted, key)
                     ELSE F.sorted[n].fws[c]]]],
           status |-> [k \in DOMAIN F.status |->
                  IF k = key THEN COMPLETE
                  ELSE IF k \in change THEN INCOMPLETE ELSE F.status[k]],
           progress |-> F.progress \/ change # {}]

\* The run up to the end of FindLinks.
FollowInit ==
  /\ \E G \in FollowGrammars :
        LET L == FindFirstSets(FindRulePrecedences(Lemon(G, FALSE, FALSE)))
            b == FindStates(L)
        IN /\ lem = [L EXCEPT !.sorted = b.states, !.nstate = Len(b.states),
                              !.nact = b.nact, !.errorcnt = @ + b.nerr]
           /\ rs = [links |-> b.links, status |-> BuiltStatus(L, b.states),
                    i |-> 1, k |-> 1, progress |-> TRUE, built |-> b.states,
                    pass |-> 0]
  /\ call = {}
  /\ pc = "links"
  /\ p = Idle /\ rows = Idle /\ tabPanic = FALSE

\* The first loop of FindFollowSets, and the entry into the first pass.
ResetStatus ==
  /\ pc = "links"
  /\ rs' = [rs EXCEPT !.status = [key \in DOMAIN rs.status |-> INCOMPLETE],
                      !.progress = FALSE, !.i = 1, !.k = 1, !.pass = 1]
  /\ call' = {lem.sorted}
  /\ pc' = "pass"
  /\ UNCHANGED <<lem, actVars>>

\* One turn of the loop over cfp.
VisitConfig ==
  /\ pc = "pass"
  /\ rs.i <= lem.nstate
  /\ LET cfp == lem.sorted[rs.i].cfp
         F == FollowVisit([sorted |-> lem.sorted, status |-> rs.status,
                           progress |-> rs.progress],
                          rs.links, ConfigOf(rs.i, cfp[rs.k]))
     IN /\ lem' = [lem EXCEPT !.sorted = F.sorted]
        /\ rs' = [rs EXCEPT !.status = F.status, !.progress = F.progress,
                            !.i = IF rs.k < Len(cfp) THEN @ ELSE @ + 1,
                            !.k = IF rs.k < Len(cfp) THEN @ + 1 ELSE 1]
  /\ UNCHANGED <<pc, call, actVars>>

\* The test of the loop "for progress" after a pass over all the states.
EndPass ==
  /\ pc = "pass"
  /\ rs.i > lem.nstate
  /\ IF rs.progress
     THEN /\ rs' = [rs EXCEPT !.progress = FALSE, !.i = 1, !.k = 1,
                              !.pass = @ + 1]
          /\ call' = {lem.sorted}
          /\ pc' = "pass"
     ELSE /\ pc' = "followed"
          /\ UNCHANGED <<rs, call>>
  /\ UNCHANGED <<lem, actVars>>

FollowNext == ResetStatus \/ VisitConfig \/ EndPass

SpecFollow == FollowInit /\ [][FollowNext]_vars

\* The loop is a sequential program: it takes its next step.
SpecFollowLive == SpecFollow /\ WF_vars(FollowNext)

\* C22: after FindFollowSets the follow sets are the least fixed point of
\* the propagation graph: for every forward link c -> c' the follow set of
\* c is a subset of that of c'; every terminal in the follow set of a
\* configuration is one of its seeds (the end of input on a start item, or
\* what Configlist_closure put there) or is in the follow set of a
\* configuration that links forward to it; and the follow sets are the
\* least sets that hold the seeds and are closed under the links.
C22_LeastFixedPoint ==
  pc = "followed" =>
    /\ \A l \in rs.links : FwsOf(lem.sorted, l[1]) \subseteq FwsOf(lem.sorted, l[2])
    /\ \A key \in AllConfigs(lem.sorted) :
          \A t \in FwsOf(lem.sorted, key) :
             \/ t \in FwsOf(rs.built, key)
             \/ \E l \in rs.links : l[2] = key /\ t \in FwsOf(lem.sorted, l[1])
    /\ lem.sorted = Propagate(rs.built, rs.links)

C22_Witness ==
  /\ pc = "followed"
  /\ \E l \in rs.links :
        /\ l[1].stp # l[2].stp
        /\ FwsOf(rs.built, l[2]) = {}
        /\ FwsOf(lem.sorted, l[2]) # {}
  /\ \E l \in rs.links :
        /\ l[1].stp = l[2].stp
        /\ FwsOf(rs.built, l[2]) # FwsOf(lem.sorted, l[2])

\* The configuration key comes before the position of the loops.
Visited(key) ==
  \/ key.stp + 1 < rs.i
  \/ /\ key.stp + 1 = rs.i
     /\ \E k \in 1..(rs.k - 1) : ConfigOf(rs.i, lem.sorted[rs.i].cfp[k]) = key

\* C23: the propagation loop terminates; when it has, every configuration
\* of every state is COMPLETE, the last pass was a full pass over all the
\* states and no follow set grew in it; and a step of the loop sets a
\* configuration back to INCOMPLETE exactly when it made the follow set of
\* that configuration grow.
C23_Terminates ==
  /\ <>(pc = "followed")
  /\ [](pc = "followed" =>
          /\ \A key \in DOMAIN rs.status : rs.status[key] = COMPLETE
          /\ rs.i = lem.nstate + 1
          /\ call = {lem.sorted})
  /\ [][pc = "pass" =>
          \A key \in DOMAIN rs.status :
             /\ FwsOf(lem.sorted', key) # FwsOf(lem.sorted, key)
                  => /\ rs'.status[key] = INCOMPLETE
                     /\ rs'.progress
                     /\ FwsOf(lem.sorted, key) \subseteq FwsOf(lem.sorted', key)
             /\ (rs.status[key] = COMPLETE /\ rs'.status[key] = INCOMPLETE)
                  => FwsOf(lem.sorted', key) # FwsOf(lem.sorted, key)]_vars

C23_Witness ==
  /\ pc = "pass"
  /\ rs.pass >= 2
  /\ \E key \in DOMAIN rs.status :
        /\ Visited(key)
        /\ rs.status[key] = INCOMPLETE
        /\ \E s \in call : FwsOf(lem.sorted, key) # FwsOf(s, key)

\* The state the state at position n of lem.sorted goes to by a SHIFT on
\* the symbol X.
ShiftsTo(n, X) ==
  {a.stp : a \in {a \in Range(lem.sorted[n].ap) : a.typ = SHIFT /\ a.sp = X}}

\* C24: after the state build, for every state s, every configuration
\* (r, d) of s with a symbol X after the dot, and the state s' that s
\* shifts to on X: (r, d + 1) is a basis configuration of s' and carries
\* the link back to (r, d) of s, whether s' was created by this transition
\* or found in the state table.
C24_NoLinkLost ==
  \A n \in 1..Len(lem.sorted) : \A c \in Range(lem.sorted[n].cfp) :
     AfterDot(lem, c) # NoSym =>
       /\ ShiftsTo(n, AfterDot(lem, c)) # {}
       /\ \A t \in ShiftsTo(n, AfterDot(lem, c)) :
             /\ [rp |-> c.rp, dot |-> c.dot + 1] \in Range(lem.sorted[t + 1].bp)
             /\ <<ConfigOf(n, c), [stp |-> t, rp |-> c.rp, dot |-> c.dot + 1]>>
                  \in rs.links

\* A state reached by transitions of two states: the second found it in
\* the state table.
C24_Witness ==
  \E l1 \in rs.links : \E l2 \in rs.links :
     /\ l1[2] = l2[2]
     /\ l1[1].stp # l2[1].stp
     /\ l1[1].stp # l1[2].stp
     /\ l2[1].stp # l2[2].stp
     /\ l1[2].dot > 0

(***************************************************************************)
(* Claims about CompressTables and ResortStates in the generator run.      *)
(***************************************************************************)
\* The <<lookahead, rule>> of the REDUCE actions of ap by rules of the
\* start symbol.
StartReduces(ap) ==
  {<<ap[k].sp, ap[k].rp>> : k \in {k \in 1..Len(ap) :
      ap[k].typ = REDUCE /\ lem.rule[ap[k].rp].lhs = lem.start}}

\* C25: CompressTables never defaults a rule whose left-hand side is the
\* start symbol: after it no state has a Reduce by such a rule on the
\* {default} lookahead, no state has such a rule as pDfltReduce, and the
\* Reduces by start rules of every state are on the lookaheads they had.
C25_StartRuleNotDefaulted ==
  [][pc = "compress" =>
       \A n \in 1..Len(lem.sorted) :
          /\ \A x \in StartReduces(lem.sorted'[n].ap) : x[1] # lem.nsymbol
          /\ \/ lem.sorted'[n].pDfltReduce = NoRule
             \/ lem.rule[lem.sorted'[n].pDfltReduce].lhs # lem.start
          /\ StartReduces(lem.sorted'[n].ap) = StartReduces(lem.sorted[n].ap)]_vars

\* CompressTables has run: some state has a default, and some state keeps
\* a Reduce by a start rule.
C25_Witness ==
  /\ ~lem.compress
  /\ pc \in {"resort", "report"}
  /\ \E n \in 1..Len(lem.sorted) : \E k \in 1..Len(lem.sorted[n].ap) :
        lem.sorted[n].ap[k].typ = REDUCE /\ lem.sorted[n].ap[k].sp = lem.nsymbol
  /\ \E n \in 1..Len(lem.sorted) :
        /\ StartReduces(lem.sorted[n].ap) # {}
        /\ \E k \in 1..Len(lem.sorted[n].ap) : lem.sorted[n].ap[k].typ = SHIFT

\* The positions of the actions of ap that are emitted into a table.
EmittedActions(ap) == {k \in 1..Len(ap) : ap[k].typ \in Emitted}

\* The run has just left CompressTables.
AfterCompressTables ==
  /\ ~lem.compress
  /\ \/ pc = "resort"
     \/ pc = "report" /\ lem.noResort

\* C26: after CompressTables a state is autoReduce only if the single
\* action of it that would be emitted is the {default} Reduce by its
\* default rule: it holds no Shift, no Reduce by another rule, no Error, no
\* Accept and no ShiftReduce.
C26_AutoReduceOnlyDefault ==
  AfterCompressTables =>
    \A n \in 1..Len(lem.sorted) :
       lem.sorted[n].autoReduce =>
         \A k \in EmittedActions(lem.sorted[n].ap) :
            /\ lem.sorted[n].ap[k].typ = REDUCE
            /\ lem.sorted[n].ap[k].sp = lem.nsymbol
            /\ lem.sorted[n].ap[k].rp = lem.sorted[n].pDfltReduce

\* The same on the states without an action of kind ERROR.
C26_ExceptError ==
  AfterCompressTables =>
    \A n \in 1..Len(lem.sorted) :
       (/\ lem.sorted[n].autoReduce
        /\ \A k \in 1..Len(lem.sorted[n].ap) : lem.sorted[n].ap[k].typ # ERROR) =>
         /\ Cardinality(EmittedActions(lem.sorted[n].ap)) = 1
         /\ \A k \in EmittedActions(lem.sorted[n].ap) :
               /\ lem.sorted[n].ap[k].typ = REDUCE
               /\ lem.sorted[n].ap[k].sp = lem.nsymbol
               /\ lem.sorted[n].ap[k].rp = lem.sorted[n].pDfltReduce

\* CompressTables has run in this run.
Compressed == ~lem.compress /\ pc \in {"resort", "report", "done", "end"}

\* ResortStates has run in this run.
Resorted == ~lem.noResort /\ pc \in {"report", "done", "end"}

\* The action of the list ap that Action_add numbered index.
ActionByIndex(ap, index) == CHOOSE a \in Range(ap) : a.index = index

NoShiftIntoAutoReduce ==
  \A n \in 1..Len(lem.sorted) : \A a \in Range(lem.sorted[n].ap) :
     a.typ = SHIFT => ~StateOf(lem, a.stp).autoReduce

EmittedShiftsBelowNxstate ==
  \A a \in EmittedShifts :
     0 <= compute_action(lem, a) /\ compute_action(lem, a) < lem.nxstate

\* C27 as stated: after CompressTables no Shift has an autoReduce state as
\* its destination, every Shift that had one is a ShiftReduce on the
\* default rule of that state, and after the resort every emitted Shift
\* encodes a state number below nxstate.
C27_ShiftBecameShiftReduce ==
  /\ [](Compressed => NoShiftIntoAutoReduce)
  /\ [](Resorted => EmittedShiftsBelowNxstate)
  /\ [][pc = "compress" =>
          \A n \in 1..Len(lem.sorted) : \A a \in Range(lem.sorted[n].ap) :
             (a.typ = SHIFT /\ StateOf(lem', a.stp).autoReduce) =>
                LET a2 == ActionByIndex(lem'.sorted[n].ap, a.index)
                IN /\ a2.typ = SHIFTREDUCE
                   /\ a2.rp = StateOf(lem', a.stp).pDfltReduce]_vars

\* C27: after CompressTables no Shift has an autoReduce state as its
\* destination; every Shift that had one is a ShiftReduce on the default
\* rule of that state or, when that rule has no code and one right-hand
\* side symbol and the lookahead is a nonterminal, was replaced by the
\* third pass (spOpt set) with a copy of another action of its state; and
\* after the resort every emitted Shift encodes a state number below
\* nxstate.
C27_NoShiftIntoAutoReduce ==
  /\ [](Compressed => NoShiftIntoAutoReduce)
  /\ [](Resorted => EmittedShiftsBelowNxstate)
  /\ [][pc = "compress" =>
          \A n \in 1..Len(lem.sorted) : \A a \in Range(lem.sorted[n].ap) :
             (a.typ = SHIFT /\ StateOf(lem', a.stp).autoReduce) =>
                LET a2 == ActionByIndex(lem'.sorted[n].ap, a.index)
                    rp == StateOf(lem', a.stp).pDfltReduce
                IN \/ a2.typ = SHIFTREDUCE /\ a2.rp = rp
                   \/ /\ lem.rule[rp].noCode
                      /\ Len(lem.rule[rp].rhs) = 1
                      /\ a.sp >= lem.nterminal
                      /\ a2.spOpt # NoSym
                      /\ a2.sp = a.sp]_vars

C27_Witness ==
  /\ Compressed /\ Resorted
  /\ lem.nxstate < lem.nstate
  /\ EmittedShifts # {}
  /\ \E n \in 1..Len(lem.sorted) : \E a \in Range(lem.sorted[n].ap) :
        a.typ = SHIFTREDUCE
  /\ \E n \in 1..Len(lem.sorted) : \E a \in Range(lem.sorted[n].ap) :
        a.typ = SHIFT /\ a.spOpt # NoSym

\* The state pA comes before the state pB in the order of ResortStates:
\* more nonterminal actions, then more terminal actions, then the larger
\* number before the resort (numA, numB).
ResortBefore(pA, numA, pB, numB) ==
  \/ pA.nNtAct > pB.nNtAct
  \/ pA.nNtAct = pB.nNtAct /\ pA.nTknAct > pB.nTknAct
  \/ pA.nNtAct = pB.nNtAct /\ pA.nTknAct = pB.nTknAct /\ numA > numB

\* C28: ResortStates leaves the initial state at position 0, numbers the
\* states by position (sorted[i].statenum = i), and orders positions
\* 1..n-1 by decreasing number of nonterminal actions, then decreasing
\* number of terminal actions, then decreasing original state number; and
\* stateResortCompare is not 0 on two distinct states.
C28_ResortOrder ==
  [][(pc = "resort" /\ ~lem'.failed) =>
       /\ lem.sorted[1].statenum = 0
       /\ lem'.sorted[1].id = lem.sorted[1].id
       /\ Len(lem'.sorted) = Len(lem.sorted)
       /\ {lem'.sorted[n].id : n \in 1..Len(lem'.sorted)}
            = {lem.sorted[n].id : n \in 1..Len(lem.sorted)}
       /\ \A n \in 1..Len(lem'.sorted) : lem'.sorted[n].statenum = n - 1
       /\ \A i \in 2..Len(lem'.sorted) : \A j \in (i + 1)..Len(lem'.sorted) :
             ResortBefore(lem'.sorted[i],
                          StateOf(lem, lem'.sorted[i].id).statenum,
                          lem'.sorted[j],
                          StateOf(lem, lem'.sorted[j].id).statenum)
       /\ \A i \in 1..Len(lem.sorted) : \A j \in 1..Len(lem.sorted) :
             i # j => stateResortCompare(CountActions(lem, lem.sorted[i]).st,
                                         CountActions(lem, lem.sorted[j]).st) # 0]_vars

\* Resorted states: some state has moved, and two states with the same
\* counts stand in decreasing order of their numbers before the resort.
C28_Witness ==
  /\ Resorted
  /\ \E n \in 1..Len(lem.sorted) : lem.sorted[n].id # lem.sorted[n].statenum
  /\ \E i \in 2..Len(lem.sorted) : \E j \in (i + 1)..Len(lem.sorted) :
        /\ lem.sorted[i].nNtAct = lem.sorted[j].nNtAct
        /\ lem.sorted[i].nTknAct = lem.sorted[j].nTknAct
        /\ lem.sorted[i].id > lem.sorted[j].id
  /\ \E i \in 2..Len(lem.sorted) : \E j \in (i + 1)..Len(lem.sorted) :
        lem.sorted[i].nNtAct > lem.sorted[j].nNtAct

\* C29: the final assertion of resolve_conflict never fails: FindActions,
\* which stops only there, never stops the generator.
C29_AssertionNeverFails ==
  [][pc = "actions" => ~lem'.failed]_vars

\* The counts, default action and offsets of the state st are those the
\* first loop of ResortStates leaves.
CountsInitialised(st) ==
  /\ st.nTknAct = Cardinality({k \in EmittedActions(st.ap) :
                                 st.ap[k].sp < lem.nterminal})
  /\ st.nNtAct = Cardinality({k \in EmittedActions(st.ap) :
                                /\ st.ap[k].sp >= lem.nterminal
                                /\ st.ap[k].sp < lem.nsymbol})
  /\ (\A k \in EmittedActions(st.ap) : st.ap[k].sp < lem.nsymbol)
       => st.iDfltReduce = -1
  /\ st.iTknOfst = NO_OFFSET
  /\ st.iNtOfst = NO_OFFSET

\* C30: with or without -r, when ReportTable is entered every state has
\* its terminal and nonterminal action counts computed and its default
\* action and offsets initialised, and nxstate >= 1.
C30_ResortOnlyReorders ==
  pc = "report" =>
    /\ lem.nxstate >= 1
    /\ \A n \in 1..Len(lem.sorted) : CountsInitialised(lem.sorted[n])

\* The same for the runs without -r.
C30_WhenResorted ==
  (pc = "report" /\ ~lem.noResort) =>
    /\ lem.nxstate >= 1
    /\ \A n \in 1..Len(lem.sorted) : CountsInitialised(lem.sorted[n])

====
